---- MODULE Spec2Model ----
(***************************************************************************)
(* ride-watch: the adaptive polling / notification core.                   *)
(*                                                                         *)
(*   src/index.js          cached variant: Status Cache, device cache,     *)
(*                         quiet hours ("bedtime"), push channel           *)
(*   src/unnamed/part_000  alert-mode variant: no cache, alert interval,   *)
(*                         SMS + push channels                             *)
(*                                                                         *)
(* Every handler is a sequence of steps; a step runs from one suspension   *)
(* point (await) of the handler to the next.                               *)
(***************************************************************************)
EXTENDS Integers, Sequences, FiniteSets, TLC

VARIABLES
    \* ---- environment fixed at process start
    config,          \* index.js:7-25 / part_000:8-28: configuration from the environment
    hourCycle,       \* index.js:262-266: hour cycle the runtime resolves for en-US, hour12:false
    firebaseInitialized, \* index.js:28-37
    scope,           \* the input sets this specification draws from (feed entities, tokens, ...)
    \* ---- process-lifetime state and durable stores
    statusCache,     \* index.js:52
    statusCacheInitialized, \* index.js:53
    warmLog,         \* index.js:67: outcome of each bulk read of initializeStatusCache, in order
    deviceCache,     \* index.js:56     [tokens, ageMs] with ageMs = Date.now() - loadedAt
    store,           \* index.js:41     Firestore collection ride-status
    devices,         \* index.js:42     Firestore collection devices
    \* ---- the handler being served and its position
    handler, pc, response,
    caught,          \* the handler's catch block was entered
    \* ---- locals of checkStatusChanges
    parkIdx, obsCount, obs, previousStatus,
    totalChecked, totalChanges, ridesDown, firestoreWrites, statusChanges,
    notificationResults, dispatched,
    writes,          \* the durable status writes this handler issued, in order
    fetchLog,        \* index.js:448: outcome of fetchParkLiveData for each park, in order
    \* ---- locals of sendPushNotification / sendSmsNotification
    push, devList, devIdx, sent, failed,
    pushLog,         \* the push sends this handler attempted, in order
    smsResult,
    deviceReads,     \* index.js:143: the device queries this handler issued
    \* ---- locals of scheduleNextCheck / getNextCheckDelay
    clockCheck,      \* index.js:629: wall clock the isBedtime() of POST /check read
    delayArg,        \* the delaySeconds argument of scheduleNextCheck
    clockBedtime,    \* index.js:261: wall clock (seconds of the day) isBedtime() read last
    clockUntilEnd,   \* index.js:291: wall clock getSecondsUntilBedtimeEnds() read last
    nextCheck,       \* index.js:392: what getNextCheckDelay() returned
    scheduleResult,  \* what scheduleNextCheck() did
    taskLog,         \* index.js:412: the createTask calls this handler made, in order
    \* ---- requests served while another one awaits
    reader,          \* index.js:592-607: a GET /devices and its getDeviceTokens call
    mutator,         \* index.js:559-590: a POST /devices or DELETE /devices/:token
    dirHist,         \* the device mutations that completed, for the properties
    sms,             \* part_000:234-250: the sends of a sendSmsNotification call in flight
    inv,             \* index.js:674-700: GET /check requests served at once, each with
                     \* the locals of its checkStatusChanges call
    wallClock,       \* index.js:98: the instant new Date() last returned
    feed,            \* part_000:370: what the live feed reports for each ride, and how
                     \* often that status has changed
    pendingTasks     \* index.js:412: tasks createTask has put on the Cloud Tasks queue
                     \* that have not been delivered to POST /check yet

envVars == <<config, hourCycle, firebaseInitialized, scope>>
cacheVars == <<statusCache, statusCacheInitialized, warmLog>>
storeVars == <<store, devices, deviceCache>>
ctlVars == <<handler, pc, response, caught>>
cycleVars == <<parkIdx, obsCount, obs, previousStatus, totalChecked, totalChanges,
               ridesDown, firestoreWrites, statusChanges, notificationResults,
               dispatched, writes, fetchLog>>
pushVars == <<push, devList, devIdx, sent, failed, pushLog, smsResult, deviceReads>>
schedVars == <<clockCheck, delayArg, clockBedtime, clockUntilEnd, nextCheck, scheduleResult,
               taskLog>>

directoryVars == <<reader, mutator, dirHist>>
overlapVars == <<inv, wallClock, feed>>
fanoutVars == <<sms>>
queueVars == <<pendingTasks>>
localVars == <<directoryVars, overlapVars, fanoutVars>>
asyncVars == <<localVars, queueVars>>

vars == <<envVars, cacheVars, storeVars, ctlVars, cycleVars, pushVars, schedVars, asyncVars>>

None == "none"

Max(a, b) == IF a >= b THEN a ELSE b

Min(a, b) == IF a <= b THEN a ELSE b

(***************************************************************************)
(* Wall clock in the configured timezone.                                  *)
(***************************************************************************)
SecondsPerMinute == 60
SecondsPerHour == 3600
HoursPerDay == 24
SecondsPerDay == HoursPerDay * SecondsPerHour

Hours == 0 .. (HoursPerDay - 1)

HourOf(t) == t \div SecondsPerHour
MinuteOf(t) == (t % SecondsPerHour) \div SecondsPerMinute
SecondOf(t) == t % SecondsPerMinute
TimeOfDay(h, m, s) == h * SecondsPerHour + m * SecondsPerMinute + s

\* Intl.DateTimeFormat('en-US', {hour, hour12: false}) followed by parseInt.
\* With hour cycle h23 the hours of the day print as 0..23; with h24 (what
\* hour12:false resolves to for a 12-hour locale on runtimes that follow the
\* older ECMA-402 resolution) they print as 1..24: the hour after midnight
\* prints as 24.
FormatHour(h) == IF hourCycle = "h24" /\ h = 0 THEN HoursPerDay ELSE h

getCurrentHourInTimezone(t) == FormatHour(HourOf(t))

isBedtime_closedEnd(t) ==
    IF ~config.bedtimeEnabled THEN FALSE
    ELSE LET currentHour == getCurrentHourInTimezone(t)
         IN  IF config.bedtimeStart < config.bedtimeEnd
             THEN currentHour >= config.bedtimeStart /\ currentHour <= config.bedtimeEnd
             ELSE currentHour >= config.bedtimeStart \/ currentHour <= config.bedtimeEnd

isBedtime(t) ==
    IF ~config.bedtimeEnabled THEN FALSE
    ELSE LET currentHour == getCurrentHourInTimezone(t)
         IN  IF config.bedtimeStart < config.bedtimeEnd
             THEN currentHour >= config.bedtimeStart /\ currentHour < config.bedtimeEnd
             ELSE currentHour >= config.bedtimeStart \/ currentHour < config.bedtimeEnd

BedtimeBufferSec == 60

getSecondsUntilBedtimeEnds(t) ==
    LET currentHour == FormatHour(HourOf(t))
        currentMinute == MinuteOf(t)
        currentSecond == SecondOf(t)
        hoursUntilEnd == IF currentHour < config.bedtimeEnd
                         THEN config.bedtimeEnd - currentHour
                         ELSE HoursPerDay - currentHour + config.bedtimeEnd
        secondsUntilEnd == (hoursUntilEnd * SecondsPerHour)
                           - (currentMinute * SecondsPerMinute) - currentSecond
    IN  Max(secondsUntilEnd + BedtimeBufferSec, BedtimeBufferSec)

\* t1 is the clock isBedtime() reads, t2 the clock getSecondsUntilBedtimeEnds()
\* reads right after it.
getNextCheckDelay(normalDelaySeconds, t1, t2) ==
    IF isBedtime(t1)
    THEN LET delaySeconds == getSecondsUntilBedtimeEnds(t2)
         IN  [delaySeconds |-> delaySeconds,
              reason |-> [kind |-> "bedtime",
                          hours |-> delaySeconds \div SecondsPerHour,
                          minutes |-> (delaySeconds % SecondsPerHour) \div SecondsPerMinute,
                          until |-> config.bedtimeEnd],
              isBedtime |-> TRUE]
    ELSE [delaySeconds |-> normalDelaySeconds,
          reason |-> [kind |-> "normal interval"],
          isBedtime |-> FALSE]

\* The clock a second read sees: the same second, or the next one.
ClockAfter(t) == {t, (t + 1) % SecondsPerDay}

(***************************************************************************)
(* Helpers (index.js:331-352, part_000:274-311).  Names are sequences of   *)
(* characters.                                                             *)
(***************************************************************************)
DOWN_STATUSES == {"DOWN", "REFURBISHMENT", "CLOSED"}

Absent == "absent"

\* String.prototype.toLowerCase on the characters the names are made of.
LowerChar(c) == CASE c = "S" -> "s" [] c = "P" -> "p" [] c = "T" -> "t" [] OTHER -> c
toLowerCase(str) == [i \in 1 .. Len(str) |-> LowerChar(str[i])]

RECURSIVE trimStart(_)
trimStart(str) == IF str # <<>> /\ Head(str) = " " THEN trimStart(Tail(str)) ELSE str
RECURSIVE trimEnd(_)
trimEnd(str) ==
    IF str # <<>> /\ str[Len(str)] = " " THEN trimEnd(SubSeq(str, 1, Len(str) - 1)) ELSE str
trim(str) == trimEnd(trimStart(str))

includes(str, search) ==
    \E i \in 1 .. (Len(str) - Len(search) + 1) :
        SubSeq(str, i, i + Len(search) - 1) = search

shouldMonitorRide_emptyWatchesNothing(rideName) ==
    \E k \in 1 .. Len(config.watchedRides) :
        includes(toLowerCase(rideName), trim(toLowerCase(config.watchedRides[k])))

shouldMonitorRide(rideName) ==
    IF Len(config.watchedRides) = 0 THEN TRUE
    ELSE \E k \in 1 .. Len(config.watchedRides) :
            includes(toLowerCase(rideName), trim(toLowerCase(config.watchedRides[k])))

isDownStatus(status) == status \in DOWN_STATUSES

\* attraction.status || 'UNKNOWN'
StatusOrUnknown(status) == IF status = Absent \/ status = "" THEN "UNKNOWN" ELSE status

\* A title is its text and the emoji that follows it.
getNotificationTitle(newStatus) ==
    CASE newStatus = "OPERATING" -> [text |-> "Ride Back Up!", emoji |-> "party popper"]
      [] newStatus = "DOWN" -> [text |-> "Ride Down", emoji |-> "warning"]
      [] newStatus = "CLOSED" -> [text |-> "Ride Closed", emoji |-> None]
      [] newStatus = "REFURBISHMENT" -> [text |-> "Ride Under Refurbishment", emoji |-> None]
      [] OTHER -> [text |-> "Ride Status Changed", emoji |-> None]

\* `${rideName}: ${oldStatus || 'Unknown'} -> ${newStatus}`
formatStatusMessage(rideName, oldStatus, newStatus) ==
    [rideName |-> rideName,
     oldStatus |-> IF oldStatus = None \/ oldStatus = "" THEN "Unknown" ELSE oldStatus,
     newStatus |-> newStatus]

\* The notification of one change (index.js:514-523).
ChangeNotification(change) ==
    [title |-> getNotificationTitle(change.newStatus),
     body |-> <<formatStatusMessage(change.rideName, change.oldStatus, change.newStatus)>>,
     data |-> [type |-> "status_change", rideId |-> change.rideId,
               rideName |-> change.rideName, oldStatus |-> change.oldStatus,
               newStatus |-> change.newStatus]]

\* A summary whose body leaves out the last change.
SummaryNotification_truncated(changes) ==
    [title |-> [count |-> Len(changes), text |-> "Ride Status Changes"],
     body |-> [i \in 1 .. Len(changes) - 1 |->
                  [rideName |-> changes[i].rideName, oldStatus |-> changes[i].oldStatus,
                   newStatus |-> changes[i].newStatus]],
     data |-> [type |-> "status_change_summary", count |-> Len(changes)]]

\* The summary of many changes (index.js:526-534): one body line per change.
SummaryNotification(changes) ==
    [title |-> [count |-> Len(changes), text |-> "Ride Status Changes"],
     body |-> [i \in 1 .. Len(changes) |->
                  [rideName |-> changes[i].rideName, oldStatus |-> changes[i].oldStatus,
                   newStatus |-> changes[i].newStatus]],
     data |-> [type |-> "status_change_summary", count |-> Len(changes)]]

TestNotification ==
    [title |-> [text |-> "Test Notification", emoji |-> None],
     body |-> <<"This is a test push notification from ride-watch">>,
     data |-> [type |-> "test"]]

MaxIndividual == 3

\* The notifications a list of changes is turned into, in dispatch order
\* (index.js:512-536).
NotificationsFor(changes) ==
    IF Len(changes) = 0 THEN <<>>
    ELSE IF Len(changes) <= MaxIndividual
         THEN [i \in 1 .. Len(changes) |-> ChangeNotification(changes[i])]
         ELSE <<SummaryNotification(changes)>>

(***************************************************************************)
(* Status Cache (index.js:59-108).  The cache is a Map: a function whose   *)
(* domain is the set of ride ids it holds.  The durable collections are    *)
(* functions from document ids in the same way.                            *)
(***************************************************************************)
EmptyMap == [k \in {} |-> None]

StatusRecord(status, rideName) == [status |-> status, rideName |-> rideName]

\* getPreviousStatus(rideId)?.status: None stands for undefined
getPreviousStatus(rideId) ==
    IF rideId \in DOMAIN statusCache THEN statusCache[rideId].status ELSE None

\* previousStatus && previousStatus !== currentStatus
ChangeDetected_alsoFirst(prev, currentStatus) == prev # currentStatus

ChangeDetected(prev, currentStatus) ==
    prev # None /\ prev # "" /\ prev # currentStatus

\* saveStatus: hasChanged = !previous || previous.status !== status
hasChanged_onlyNew(rideId, status) == rideId \notin DOMAIN statusCache

hasChanged_always(rideId, status) == TRUE

hasChanged(rideId, status) ==
    rideId \notin DOMAIN statusCache \/ statusCache[rideId].status # status

(***************************************************************************)
(* Device directory (index.js:133-191).                                    *)
(***************************************************************************)
DEVICE_CACHE_TTL_MS == 60000

TokenOrder == <<"t1", "t2", "t3">>

DeviceIsActive(token) == token \in DOMAIN devices /\ devices[token].active

\* devicesCollection.where('active', '==', true).get(): the active documents,
\* in document-id order.
ActiveDevices == SelectSeq(TokenOrder, DeviceIsActive)

DeviceCacheFresh ==
    Len(deviceCache.tokens) > 0 /\ deviceCache.ageMs < DEVICE_CACHE_TTL_MS

InvalidatedCache_untouched(cache) == cache

\* loadedAt = 0: the age is the whole epoch time, beyond any TTL
InvalidatedCache(cache) == [cache EXCEPT !.ageMs = DEVICE_CACHE_TTL_MS]

RegisteredDevice == [active |-> TRUE, invalid |-> FALSE]

\* markTokenInvalid's update of the document (index.js:183-187)
InvalidatedDevice(doc) == [active |-> FALSE, invalid |-> TRUE] @@ doc

ElapseStepMs == DEVICE_CACHE_TTL_MS \div 2

(***************************************************************************)
(* Handler locals, as they are when no handler runs.                       *)
(***************************************************************************)
NoObs == [id |-> None, name |-> <<>>, entityType |-> None, status |-> None]
NoPush == [title |-> [text |-> None, emoji |-> None], body |-> <<>>, data |-> [type |-> None]]
NoResult == [sent |-> -1, failed |-> -1]
NoDecision == [delaySeconds |-> -1, reason |-> [kind |-> None], isBedtime |-> FALSE]
NoSchedule ==
    [called |-> FALSE, scheduled |-> FALSE, delaySeconds |-> -1, reason |-> [kind |-> None]]
NoResponse == [status |-> 0]

\* No GET /devices is being served.  sinceMs is Date.now() - now of its
\* getDeviceTokens call; read, owed and quiet record for the properties
\* whether the call queried the store, whether it started with a completed
\* mutation not yet followed by a call, and whether no mutation was in
\* flight from its start on.
ReaderIdle ==
    [pc |-> "idle", sinceMs |-> 0, readOk |-> TRUE, snapshot |-> <<>>,
     read |-> FALSE, owed |-> FALSE, quiet |-> TRUE, response |-> NoResponse]

\* No POST /devices or DELETE /devices/:token is being served.
\* The metadata of a POST /devices whose body has neither platform nor
\* deviceName (index.js:560, 568): both are undefined.
NoMetadata == [platform |-> Absent, deviceName |-> Absent]

MutatorIdle ==
    [pc |-> "idle", op |-> None, token |-> None, metadata |-> NoMetadata,
     response |-> NoResponse]

NoHistory == [stale |-> FALSE, lastDone |-> EmptyMap]

\* The GET /check requests that can be in flight together.
\* The feed reports every ride of the park's liveData as operating at first.
InitialFeed ==
    IF "liveData" \in DOMAIN scope
    THEN [id \in {scope.liveData[k].id : k \in DOMAIN scope.liveData} |->
             [status |-> "OPERATING", changes |-> 0]]
    ELSE EmptyMap

SmsIdle == [pc |-> "idle", attempts |-> <<>>, settled |-> <<>>, sent |-> 0, failed |-> 0]

Invocations == {1, 2}

\* No checkStatusChanges call: its locals (index.js:439-444, 511) and, while
\* it awaits, the bulk read's answer and the write saveStatus issued.
InvocationIdle ==
    [pc |-> "idle", readOk |-> TRUE, snapshot |-> EmptyMap, parkIdx |-> 0,
     obsCount |-> 0, totalChecked |-> 0, ridesDown |-> 0, firestoreWrites |-> 0,
     statusChanges |-> <<>>, pending |-> None, dispatched |-> 0,
     notificationResults |-> NoResult, response |-> NoResponse]

LocalsIdle ==
    /\ parkIdx = 0 /\ obsCount = 0 /\ obs = NoObs /\ previousStatus = None
    /\ totalChecked = 0 /\ totalChanges = 0 /\ ridesDown = 0 /\ firestoreWrites = 0
    /\ statusChanges = <<>> /\ notificationResults = NoResult /\ dispatched = 0
    /\ writes = <<>> /\ fetchLog = <<>>
    /\ push = NoPush /\ devList = <<>> /\ devIdx = 0 /\ sent = 0 /\ failed = 0
    /\ pushLog = <<>> /\ smsResult = NoResult /\ deviceReads = 0
    /\ clockCheck = -1 /\ delayArg = -1 /\ clockBedtime = -1 /\ clockUntilEnd = -1
    /\ nextCheck = NoDecision /\ scheduleResult = NoSchedule /\ taskLog = <<>>

ResetLocals ==
    /\ parkIdx' = 0 /\ obsCount' = 0 /\ obs' = NoObs /\ previousStatus' = None
    /\ totalChecked' = 0 /\ totalChanges' = 0 /\ ridesDown' = 0 /\ firestoreWrites' = 0
    /\ statusChanges' = <<>> /\ notificationResults' = NoResult /\ dispatched' = 0
    /\ writes' = <<>> /\ fetchLog' = <<>>
    /\ push' = NoPush /\ devList' = <<>> /\ devIdx' = 0 /\ sent' = 0 /\ failed' = 0
    /\ pushLog' = <<>> /\ smsResult' = NoResult /\ deviceReads' = 0
    /\ clockCheck' = -1 /\ delayArg' = -1 /\ clockBedtime' = -1 /\ clockUntilEnd' = -1
    /\ nextCheck' = NoDecision /\ scheduleResult' = NoSchedule /\ taskLog' = <<>>

(***************************************************************************)
(* checkStatusChanges, cached variant (index.js:430-546).                  *)
(***************************************************************************)

\* GET /check (index.js:674-700)
GetCheck ==
    /\ pc = "idle"
    /\ handler' = "GET /check"
    /\ pc' = "init"
    /\ UNCHANGED <<response, caught, envVars, asyncVars, cacheVars, storeVars, cycleVars, pushVars,
                   schedVars>>

\* initializeStatusCache (index.js:62-78), then the parkIds guard (index.js:434-437)
InitializedAfterWarm_onlyOnSuccess(readOk) == readOk

\* statusCacheInitialized after the bulk read: set on success and in the catch
\* block alike (index.js:71, 76).
InitializedAfterWarm(readOk) == TRUE

InitializeStatusCache ==
    /\ pc = "init"
    /\ \E readOk \in BOOLEAN :
          /\ statusCacheInitialized => readOk
          /\ statusCache' = IF ~statusCacheInitialized /\ readOk
                            THEN store @@ statusCache
                            ELSE statusCache
          /\ warmLog' = IF statusCacheInitialized
                        THEN warmLog
                        ELSE Append(warmLog, IF readOk THEN "ok" ELSE "failed")
          /\ statusCacheInitialized' =
                (statusCacheInitialized \/ InitializedAfterWarm(readOk))
    /\ IF Len(config.parkIds) = 0
       THEN pc' = "checked" /\ parkIdx' = parkIdx
       ELSE pc' = "fetch" /\ parkIdx' = 1
    /\ UNCHANGED <<handler, response, caught, envVars, asyncVars, storeVars, pushVars, schedVars,
                   obsCount, obs, previousStatus, totalChecked, totalChanges, ridesDown,
                   firestoreWrites, statusChanges, notificationResults, dispatched, writes,
                   fetchLog>>

NextPark_rethrow == pc' = "failed" /\ parkIdx' = parkIdx

\* The for-loop over config.parkIds moves on (index.js:446, 498).
NextPark ==
    IF parkIdx < Len(config.parkIds)
    THEN pc' = "fetch" /\ parkIdx' = parkIdx + 1
    ELSE pc' = "notify" /\ parkIdx' = parkIdx

\* fetchParkLiveData and the liveData guard (index.js:448-459)
FetchParkLiveData ==
    /\ pc = "fetch"
    /\ \E outcome \in {"ok", "error", "malformed"} :
          /\ fetchLog' = Append(fetchLog, outcome)
          /\ IF outcome = "ok"
             THEN pc' = "attractions" /\ parkIdx' = parkIdx
             ELSE NextPark
    /\ UNCHANGED <<handler, response, caught, envVars, asyncVars, cacheVars, storeVars, pushVars, schedVars,
                   obsCount, obs, previousStatus, totalChecked, totalChanges, ridesDown,
                   firestoreWrites, statusChanges, notificationResults, dispatched, writes>>

\* One entry of the park's liveData (index.js:455-494): the ATTRACTION filter,
\* the name filter, the diff against the cache and saveStatus (index.js:90-108).
\* writeOk is whether Firestore acknowledges the write saveStatus issues; a
\* rejected write throws into the park's catch (index.js:495-497).
Observe(entity, status, writeOk) ==
    LET rideId == entity.id
        rideName == entity.name
        currentStatus == StatusOrUnknown(status)
        prev == getPreviousStatus(rideId)
        changed == hasChanged(rideId, currentStatus)
        data == StatusRecord(currentStatus, rideName)
    IN  /\ pc = "attractions"
        /\ obsCount < scope.maxObs
        /\ obsCount' = obsCount + 1
        /\ obs' = [id |-> rideId, name |-> rideName,
                   entityType |-> entity.entityType, status |-> status]
        /\ IF entity.entityType # "ATTRACTION" \/ ~shouldMonitorRide(rideName)
           THEN /\ writeOk
                /\ previousStatus' = None
                /\ UNCHANGED <<pc, parkIdx, totalChecked, totalChanges,
                               ridesDown, firestoreWrites, statusChanges, writes,
                               statusCache, store>>
           ELSE /\ totalChecked' = totalChecked + 1
                /\ ridesDown' = IF isDownStatus(currentStatus) THEN ridesDown + 1 ELSE ridesDown
                /\ previousStatus' = prev
                /\ IF ChangeDetected(prev, currentStatus)
                   THEN /\ totalChanges' = totalChanges + 1
                        /\ statusChanges' = Append(statusChanges,
                               [rideId |-> rideId, rideName |-> rideName,
                                oldStatus |-> prev, newStatus |-> currentStatus])
                   ELSE UNCHANGED <<totalChanges, statusChanges>>
                /\ statusCache' = (rideId :> data) @@ statusCache
                /\ IF changed
                   THEN /\ writes' = Append(writes, [rideId |-> rideId, data |-> data])
                        /\ IF writeOk
                           THEN /\ store' = (rideId :> data) @@ store
                                /\ firestoreWrites' = firestoreWrites + 1
                                /\ UNCHANGED <<pc, parkIdx>>
                           ELSE /\ NextPark
                                /\ UNCHANGED <<store, firestoreWrites>>
                   ELSE /\ writeOk
                        /\ UNCHANGED <<writes, store, firestoreWrites, pc, parkIdx>>
        /\ UNCHANGED <<handler, response, caught, envVars, asyncVars, statusCacheInitialized, warmLog,
                       devices, deviceCache, pushVars, schedVars, notificationResults,
                       dispatched, fetchLog>>

ObserveNext ==
    \E entity \in scope.entities, status \in scope.statuses, writeOk \in BOOLEAN :
        Observe(entity, status, writeOk)

\* The park's liveData is exhausted.
EndOfPark ==
    /\ pc = "attractions"
    /\ NextPark
    /\ UNCHANGED <<handler, response, caught, envVars, asyncVars, cacheVars, storeVars, pushVars, schedVars,
                   obsCount, obs, previousStatus, totalChecked, totalChanges, ridesDown,
                   firestoreWrites, statusChanges, notificationResults, dispatched, writes,
                   fetchLog>>

\* The notification block (index.js:510-536): the next sendPushNotification
\* call, or none is left.
Notify ==
    /\ pc = "notify"
    /\ LET todo == NotificationsFor(statusChanges)
       IN  IF dispatched < Len(todo)
           THEN /\ dispatched' = dispatched + 1
                /\ push' = todo[dispatched + 1]
                /\ pc' = "push"
           ELSE /\ pc' = "checked"
                /\ UNCHANGED <<dispatched, push>>
    /\ UNCHANGED <<handler, response, caught, envVars, asyncVars, cacheVars, storeVars, schedVars,
                   parkIdx, obsCount, obs, previousStatus, totalChecked, totalChanges,
                   ridesDown, firestoreWrites, statusChanges, notificationResults, writes,
                   devList, devIdx, sent, failed, pushLog, smsResult, fetchLog, deviceReads>>

(***************************************************************************)
(* sendPushNotification, cached variant (index.js:197-251).                *)
(***************************************************************************)

\* sendPushNotification returns {sent, failed} to its caller: the notification
\* block of checkStatusChanges (index.js:517, 531) or POST /test-push
\* (index.js:613-618).
PushReturns(result) ==
    IF handler = "POST /test-push"
    THEN /\ response' = [status |-> 200, success |-> TRUE, result |-> result]
         /\ pc' = "done"
         /\ UNCHANGED notificationResults
    ELSE /\ notificationResults' = result
         /\ pc' = "notify"
         /\ UNCHANGED response

\* An exception leaves checkStatusChanges or sendPushNotification.
Throws == pc' = "failed"

\* The head of sendPushNotification up to the loop (index.js:198-212), with
\* getDeviceTokens (index.js:133-153).  readOk is whether the Firestore query
\* of a refresh succeeds.
SendPushNotification ==
    /\ pc = "push"
    /\ \E readOk \in BOOLEAN :
          IF ~firebaseInitialized
          THEN /\ readOk
               /\ PushReturns([sent |-> 0, failed |-> 0])
               /\ UNCHANGED <<deviceCache, devList, devIdx, sent, failed>>
          ELSE IF DeviceCacheFresh
          THEN /\ readOk
               /\ devList' = deviceCache.tokens
               /\ devIdx' = 1 /\ sent' = 0 /\ failed' = 0
               /\ pc' = "send"
               /\ UNCHANGED <<deviceCache, response, notificationResults>>
          ELSE IF ~readOk
          THEN /\ Throws
               /\ UNCHANGED <<deviceCache, devList, devIdx, sent, failed, response,
                              notificationResults>>
          ELSE /\ deviceCache' = [tokens |-> ActiveDevices, ageMs |-> 0]
               /\ IF Len(ActiveDevices) = 0
                  THEN /\ PushReturns([sent |-> 0, failed |-> 0])
                       /\ UNCHANGED <<devList, devIdx, sent, failed>>
                  ELSE /\ devList' = ActiveDevices
                       /\ devIdx' = 1 /\ sent' = 0 /\ failed' = 0
                       /\ pc' = "send"
                       /\ UNCHANGED <<response, notificationResults>>
    /\ deviceReads' = IF firebaseInitialized /\ ~DeviceCacheFresh
                      THEN deviceReads + 1
                      ELSE deviceReads
    /\ UNCHANGED <<handler, caught, envVars, asyncVars, cacheVars, store, devices, schedVars,
                   parkIdx, obsCount, obs, previousStatus, totalChecked, totalChanges,
                   ridesDown, firestoreWrites, statusChanges, dispatched, writes,
                   push, pushLog, smsResult, fetchLog>>

\* What became of markTokenInvalid in the catch of a send (index.js:240-246).
MarkResult(outcome, markOk) ==
    IF outcome # "invalid-token" THEN "not called"
    ELSE IF markOk THEN "acknowledged" ELSE "rejected"

\* One iteration of the loop over the devices (index.js:214-248).  outcome is
\* what admin.messaging().send does; markOk is whether the update of
\* markTokenInvalid (index.js:182-191) is acknowledged.
SendToDevice(outcome, markOk) ==
    LET token == devList[devIdx]
        last == devIdx = Len(devList)
        sentNow == IF outcome = "ok" THEN sent + 1 ELSE sent
        failedNow == IF outcome = "ok" THEN failed ELSE failed + 1
    IN  /\ pc = "send"
        /\ pushLog' = Append(pushLog, [dispatch |-> dispatched, token |-> token,
                                       title |-> push.title, outcome |-> outcome,
                                       marked |-> MarkResult(outcome, markOk)])
        /\ sent' = sentNow
        /\ failed' = failedNow
        /\ IF outcome = "invalid-token" /\ ~markOk
           THEN /\ Throws
                /\ UNCHANGED <<devices, deviceCache, devIdx, response, notificationResults>>
           ELSE /\ outcome # "invalid-token" => markOk
                /\ IF outcome = "invalid-token"
                   THEN /\ devices' = [devices EXCEPT ![token] = InvalidatedDevice(@)]
                        /\ deviceCache' = InvalidatedCache(deviceCache)
                   ELSE UNCHANGED <<devices, deviceCache>>
                /\ IF last
                   THEN /\ PushReturns([sent |-> sentNow, failed |-> failedNow])
                        /\ UNCHANGED devIdx
                   ELSE /\ devIdx' = devIdx + 1
                        /\ UNCHANGED <<pc, response, notificationResults>>
        /\ UNCHANGED <<handler, caught, envVars, asyncVars, cacheVars, store, schedVars,
                       parkIdx, obsCount, obs, previousStatus, totalChecked, totalChanges,
                       ridesDown, firestoreWrites, statusChanges, dispatched, writes,
                       push, devList, smsResult, fetchLog, deviceReads>>

SendToDeviceNext ==
    \E outcome \in {"ok", "error", "invalid-token"}, markOk \in BOOLEAN :
        SendToDevice(outcome, markOk)

\* POST /test-push (index.js:609-623)
TestPush ==
    /\ pc = "idle"
    /\ handler' = "POST /test-push"
    /\ push' = TestNotification
    /\ pc' = "push"
    /\ UNCHANGED <<response, caught, envVars, asyncVars, cacheVars, storeVars, cycleVars, schedVars,
                   devList, devIdx, sent, failed, pushLog, smsResult, deviceReads>>

\* The catch of POST /test-push (index.js:619-622)
TestPushFails ==
    /\ pc = "failed"
    /\ handler = "POST /test-push"
    /\ response' = [status |-> 500, error |-> "error.message"]
    /\ caught' = TRUE
    /\ pc' = "done"
    /\ UNCHANGED <<handler, envVars, asyncVars, cacheVars, storeVars, cycleVars, pushVars, schedVars>>

(***************************************************************************)
(* GET /check answers (index.js:679-699).                                  *)
(***************************************************************************)
CheckResult ==
    [checked |-> totalChecked, changes |-> totalChanges, ridesDown |-> ridesDown,
     firestoreWrites |-> firestoreWrites, cacheSize |-> Cardinality(DOMAIN statusCache),
     notifications |-> notificationResults]

GetCheckResponds ==
    /\ handler = "GET /check"
    /\ pc \in {"checked", "failed"}
    /\ response' = IF pc = "checked"
                   THEN [status |-> 200, success |-> TRUE, result |-> CheckResult,
                         nextCheckSec |-> config.checkIntervalSec]
                   ELSE [status |-> 500, success |-> FALSE]
    /\ caught' = (pc = "failed")
    /\ pc' = "done"
    /\ UNCHANGED <<handler, envVars, asyncVars, cacheVars, storeVars, cycleVars, pushVars, schedVars>>

\* The response is sent and the handler's locals are gone.
Return ==
    /\ pc = "done"
    /\ pc' = "idle"
    /\ handler' = None
    /\ response' = NoResponse
    /\ caught' = FALSE
    /\ ResetLocals
    /\ UNCHANGED <<envVars, asyncVars, cacheVars, storeVars>>

(***************************************************************************)
(* The process and the passing of time.                                    *)
(***************************************************************************)
\* The instance is replaced: module-level state is constructed anew
\* (index.js:52-56), the durable collections stay.
Restart ==
    /\ pc = "idle"
    /\ reader.pc = "idle" /\ mutator.pc = "idle"
    /\ \A i \in Invocations : inv[i].pc = "idle"
    /\ statusCacheInitialized \/ Len(deviceCache.tokens) > 0
    /\ statusCache' = EmptyMap
    /\ statusCacheInitialized' = FALSE
    /\ warmLog' = <<>>
    /\ deviceCache' = [tokens |-> <<>>, ageMs |-> DEVICE_CACHE_TTL_MS]
    /\ UNCHANGED <<envVars, asyncVars, store, devices, ctlVars, cycleVars, pushVars, schedVars>>

\* Time passes between two requests: the device cache ages.
Elapse ==
    LET awaiting == reader.pc \in {"reading", "resume"}
    IN  /\ pc = "idle"
        /\ \/ deviceCache.ageMs < DEVICE_CACHE_TTL_MS
           \/ awaiting /\ reader.sinceMs < DEVICE_CACHE_TTL_MS
        /\ deviceCache' =
              [deviceCache EXCEPT !.ageMs = Min(@ + ElapseStepMs, DEVICE_CACHE_TTL_MS)]
        /\ reader' =
              IF awaiting
              THEN [reader EXCEPT !.sinceMs = Min(@ + ElapseStepMs, DEVICE_CACHE_TTL_MS)]
              ELSE reader
        /\ UNCHANGED <<envVars, queueVars, overlapVars, fanoutVars, mutator, dirHist, cacheVars, store, devices, ctlVars,
                       cycleVars, pushVars, schedVars>>

(***************************************************************************)
(* The device endpoints (index.js:559-607) and the directory functions     *)
(* they call (index.js:133-180), one step per await: several requests are  *)
(* served at once, each resuming when its Firestore call has answered.     *)
(***************************************************************************)
\* The body of GET /devices (index.js:595-602); a device is shown by its
\* token.
DevicesResponse(tokens) == [status |-> 200, count |-> Len(tokens), devices |-> tokens]

ErrorResponse == [status |-> 500, error |-> "error.message"]

\* A mutation begins while a GET /devices is being served.
Disturbed(r) == IF r.pc = "idle" THEN r ELSE [r EXCEPT !.quiet = FALSE]

\* GET /devices up to the await of getDeviceTokens (index.js:592-594,
\* 133-143): the cache is served, or the query is issued.
GetDevices ==
    /\ reader.pc = "idle"
    /\ LET call == [ReaderIdle EXCEPT !.owed = dirHist.stale,
                                      !.quiet = (mutator.pc = "idle")]
       IN  reader' = IF DeviceCacheFresh
                     THEN [call EXCEPT !.pc = "done",
                                       !.response = DevicesResponse(deviceCache.tokens)]
                     ELSE [call EXCEPT !.pc = "reading", !.read = TRUE]
    /\ dirHist' = [dirHist EXCEPT !.stale = FALSE]
    /\ UNCHANGED <<envVars, queueVars, overlapVars, fanoutVars, mutator, cacheVars, storeVars, ctlVars, cycleVars, pushVars,
                   schedVars>>

\* Firestore answers the query devicesCollection.where('active', '==',
\* true).get() (index.js:143) with the documents active at that moment, or
\* with an error.
DevicesQueryAnswered ==
    /\ reader.pc = "reading"
    /\ \E readOk \in BOOLEAN :
          reader' = [reader EXCEPT !.pc = "resume", !.readOk = readOk,
                                   !.snapshot = IF readOk THEN ActiveDevices ELSE <<>>]
    /\ UNCHANGED <<envVars, queueVars, overlapVars, fanoutVars, mutator, dirHist, cacheVars, storeVars, ctlVars, cycleVars,
                   pushVars, schedVars>>

\* getDeviceTokens resumes (index.js:144-152) and GET /devices answers
\* (index.js:595-606).
GetDevicesResumes ==
    /\ reader.pc = "resume"
    /\ IF reader.readOk
       THEN /\ deviceCache' = [tokens |-> reader.snapshot, ageMs |-> reader.sinceMs]
            /\ reader' = [reader EXCEPT !.pc = "done",
                                        !.response = DevicesResponse(reader.snapshot)]
       ELSE /\ reader' = [reader EXCEPT !.pc = "done", !.response = ErrorResponse]
            /\ UNCHANGED deviceCache
    /\ UNCHANGED <<envVars, queueVars, overlapVars, fanoutVars, mutator, dirHist, cacheVars, store, devices, ctlVars, cycleVars,
                   pushVars, schedVars>>

GetDevicesReturns ==
    /\ reader.pc = "done"
    /\ reader' = ReaderIdle
    /\ UNCHANGED <<envVars, queueVars, overlapVars, fanoutVars, mutator, dirHist, cacheVars, storeVars, ctlVars, cycleVars,
                   pushVars, schedVars>>

\* The metadata the POST /devices requests of a specification carry.
RequestMetadata ==
    IF "metadata" \in DOMAIN scope THEN scope.metadata ELSE {NoMetadata}

\* POST /devices up to the await of registerDevice (index.js:559-567,
\* 155-167): "" is a body without token.
PostDevices ==
    /\ mutator.pc = "idle"
    /\ \E token \in scope.tokens \cup {""}, metadata \in RequestMetadata :
          IF token = ""
          THEN /\ mutator' = [MutatorIdle EXCEPT
                                 !.pc = "done", !.op = "register", !.token = token,
                                 !.metadata = metadata,
                                 !.response = [status |-> 400,
                                               error |-> "Token is required"]]
               /\ UNCHANGED reader
          ELSE /\ mutator' = [MutatorIdle EXCEPT !.pc = "writing", !.op = "register",
                                                 !.token = token, !.metadata = metadata]
               /\ reader' = Disturbed(reader)
    /\ UNCHANGED <<envVars, queueVars, overlapVars, fanoutVars, dirHist, cacheVars, storeVars, ctlVars, cycleVars, pushVars,
                   schedVars>>

\* DELETE /devices/:token up to the await of unregisterDevice
\* (index.js:579-583, 172-176).
DeleteDevices ==
    /\ mutator.pc = "idle"
    /\ \E token \in scope.tokens :
          mutator' = [MutatorIdle EXCEPT !.pc = "writing", !.op = "unregister",
                                        !.token = token]
    /\ reader' = Disturbed(reader)
    /\ UNCHANGED <<envVars, queueVars, overlapVars, fanoutVars, dirHist, cacheVars, storeVars, ctlVars, cycleVars, pushVars,
                   schedVars>>

\* Object.fromEntries(Object.entries(metadata).filter(([_, v]) => v !==
\* undefined)) (index.js:156-158): the fields that are defined.
cleanMetadata(metadata) ==
    [f \in {g \in DOMAIN metadata : metadata[g] # Absent} |-> metadata[f]]

\* cleanMetadata.platform || 'ios'
PlatformOrIos(clean) ==
    IF "platform" \in DOMAIN clean /\ clean.platform # "" THEN clean.platform ELSE "ios"

\* The object registerDevice writes (index.js:160-166), the spread of
\* cleanMetadata last; registeredAt and lastUpdated are left out.
RegistrationData(metadata) ==
    LET clean == cleanMetadata(metadata)
    IN  clean @@ [active |-> TRUE, platform |-> PlatformOrIos(clean)]

\* set(data, {merge: true}): the written fields over the stored ones.
MergedDocument(data, token) ==
    IF token \in DOMAIN devices THEN data @@ devices[token] ELSE data

RegisteredAgain(token, metadata) == MergedDocument(RegistrationData(metadata), token)

\* update(...) of unregisterDevice (index.js:173-176)
UnregisteredDevice_replaced(doc) == [active |-> FALSE]

UnregisteredDevice(doc) == [active |-> FALSE] @@ doc

\* Firestore applies the write of the mutation or rejects it; update() of a
\* missing document is rejected.  A rejection is answered with 500
\* (index.js:573-576, 586-589).
DeviceWriteApplied ==
    /\ mutator.pc = "writing"
    /\ \E writeOk \in BOOLEAN :
          /\ (mutator.op = "unregister" /\ mutator.token \notin DOMAIN devices) => ~writeOk
          /\ IF writeOk
             THEN /\ devices' =
                        (mutator.token :>
                            IF mutator.op = "register"
                            THEN RegisteredAgain(mutator.token, mutator.metadata)
                            ELSE UnregisteredDevice(devices[mutator.token])) @@ devices
                  /\ mutator' = [mutator EXCEPT !.pc = "invalidate"]
             ELSE /\ mutator' = [mutator EXCEPT !.pc = "done", !.response = ErrorResponse]
                  /\ UNCHANGED devices
    /\ UNCHANGED <<envVars, queueVars, overlapVars, fanoutVars, reader, dirHist, cacheVars, store, deviceCache, ctlVars,
                   cycleVars, pushVars, schedVars>>

\* registerDevice / unregisterDevice resume after their await: deviceCache
\* .loadedAt = 0 (index.js:169, 179), and the endpoint answers 200.
MutationResumes ==
    /\ mutator.pc = "invalidate"
    /\ deviceCache' = InvalidatedCache(deviceCache)
    /\ mutator' = [mutator EXCEPT !.pc = "done",
                                  !.response = [status |-> 200, success |-> TRUE]]
    /\ dirHist' = [stale |-> TRUE,
                   lastDone |-> (mutator.token :> mutator.op) @@ dirHist.lastDone]
    /\ UNCHANGED <<envVars, queueVars, overlapVars, fanoutVars, reader, cacheVars, store, devices, ctlVars, cycleVars,
                   pushVars, schedVars>>

MutationReturns ==
    /\ mutator.pc = "done"
    /\ mutator' = MutatorIdle
    /\ UNCHANGED <<envVars, queueVars, overlapVars, fanoutVars, reader, dirHist, cacheVars, storeVars, ctlVars, cycleVars,
                   pushVars, schedVars>>

(***************************************************************************)
(* scheduleNextCheck, cached variant (index.js:380-424).                   *)
(***************************************************************************)

ScheduleNextCheck_flagIgnored(delaySeconds, t1, t2) ==
    /\ delayArg' = delaySeconds
    /\ clockBedtime' = t1
    /\ clockUntilEnd' = IF isBedtime(t1) THEN t2 ELSE clockUntilEnd
    /\ nextCheck' = getNextCheckDelay(delaySeconds, t1, t2)
    /\ pc' = "createTask"
    /\ UNCHANGED <<scheduleResult, taskLog>>

\* scheduleNextCheck up to its await of createTask (index.js:381-412): the
\* guards, then getNextCheckDelay on the clock (t1 read by isBedtime, t2 by
\* getSecondsUntilBedtimeEnds).
ScheduleNextCheck(delaySeconds, t1, t2) ==
    /\ delayArg' = delaySeconds
    /\ UNCHANGED taskLog
    /\ IF ~config.dynamicScheduling \/ ~config.schedulingConfigured
       THEN /\ scheduleResult' =
                   [called |-> TRUE, scheduled |-> FALSE, delaySeconds |-> -1,
                    reason |-> [kind |-> IF ~config.dynamicScheduling
                                         THEN "dynamic scheduling disabled"
                                         ELSE "missing config"]]
            /\ pc' = "scheduled"
            /\ UNCHANGED <<clockBedtime, clockUntilEnd, nextCheck>>
       ELSE /\ clockBedtime' = t1
            /\ clockUntilEnd' = IF isBedtime(t1) THEN t2 ELSE clockUntilEnd
            /\ nextCheck' = getNextCheckDelay(delaySeconds, t1, t2)
            /\ pc' = "createTask"
            /\ UNCHANGED scheduleResult

\* createTask completes (index.js:411-423).
CreateTask_rethrow ==
    /\ pc = "createTask"
    /\ \E ok \in BOOLEAN :
          /\ scheduleResult' =
                 IF ok
                 THEN [called |-> TRUE, scheduled |-> TRUE,
                       delaySeconds |-> nextCheck.delaySeconds, reason |-> nextCheck.reason]
                 ELSE [called |-> TRUE, scheduled |-> FALSE, delaySeconds |-> -1,
                       reason |-> [kind |-> "error.message"]]
          /\ taskLog' = Append(taskLog, [delaySeconds |-> nextCheck.delaySeconds,
                                         created |-> ok])
          /\ pc' = IF ok THEN "scheduled" ELSE "failed"
    /\ UNCHANGED <<handler, response, caught, envVars, asyncVars, cacheVars, storeVars, cycleVars,
                   pushVars, clockCheck, delayArg, clockBedtime, clockUntilEnd, nextCheck>>

\* createTask (index.js:412): a task that was created waits on the queue; the
\* request carries no task name, so the queue accepts every one of them.
QueueAfterCreate_dropped(queue, created) == queue

QueueAfterCreate(queue, created) == IF created THEN queue + 1 ELSE queue

CreateTask ==
    /\ pc = "createTask"
    /\ \E ok \in BOOLEAN :
          /\ scheduleResult' =
                 IF ok
                 THEN [called |-> TRUE, scheduled |-> TRUE,
                       delaySeconds |-> nextCheck.delaySeconds, reason |-> nextCheck.reason]
                 ELSE [called |-> TRUE, scheduled |-> FALSE, delaySeconds |-> -1,
                       reason |-> [kind |-> "error.message"]]
          /\ taskLog' = Append(taskLog, [delaySeconds |-> nextCheck.delaySeconds,
                                         created |-> ok])
          /\ pendingTasks' = QueueAfterCreate(pendingTasks, ok)
    /\ pc' = "scheduled"
    /\ UNCHANGED <<handler, response, caught, envVars, localVars, cacheVars, storeVars, cycleVars,
                   pushVars, clockCheck, delayArg, clockBedtime, clockUntilEnd, nextCheck>>

START_DELAY_SEC == 1

\* The callers from outside stop adding requests once this many tasks wait.
MaxPending == 2

\* POST /start (index.js:702-712)
PostStart ==
    /\ pc = "idle"
    /\ pendingTasks < MaxPending
    /\ handler' = "POST /start"
    /\ \E t1 \in scope.clocks : \E t2 \in ClockAfter(t1) :
          ScheduleNextCheck(START_DELAY_SEC, t1, t2)
    /\ UNCHANGED <<response, caught, envVars, asyncVars, cacheVars, storeVars, cycleVars, pushVars,
                   clockCheck>>

PostStartResponds ==
    /\ pc = "scheduled"
    /\ handler = "POST /start"
    /\ response' = [status |-> 200, success |-> TRUE]
    /\ pc' = "done"
    /\ UNCHANGED <<handler, caught, envVars, asyncVars, cacheVars, storeVars, cycleVars, pushVars,
                   schedVars>>

(***************************************************************************)
(* POST /check, cached variant (index.js:625-672).                         *)
(***************************************************************************)

\* The handler up to its first await: the bedtime guard on the clock t
\* (index.js:629), then either scheduleNextCheck for the wake-up or the
\* start of checkStatusChanges.
PostCheckRequest ==
    /\ pc = "idle"
    /\ handler' = "POST /check"
    /\ \E t \in scope.clocks :
          /\ clockCheck' = t
          /\ IF isBedtime(t)
             THEN \E t1 \in ClockAfter(t) : \E t2 \in ClockAfter(t1) :
                     ScheduleNextCheck(config.checkIntervalSec, t1, t2)
             ELSE /\ pc' = "init"
                  /\ UNCHANGED <<delayArg, clockBedtime, clockUntilEnd, nextCheck,
                                 scheduleResult, taskLog>>
    /\ UNCHANGED <<response, caught, envVars, localVars, cacheVars, storeVars, cycleVars, pushVars>>

\* POST /check called from outside: Cloud Scheduler, the backup trigger of the
\* hybrid setup (part_001:224-236), or by hand.
PostCheck ==
    /\ pendingTasks < MaxPending
    /\ PostCheckRequest
    /\ UNCHANGED pendingTasks

\* Cloud Tasks delivers a task scheduleNextCheck created (index.js:399-408):
\* the task leaves the queue and its HTTP request is a POST /check.
TaskDelivered ==
    /\ pendingTasks > 0
    /\ PostCheckRequest
    /\ pendingTasks' = pendingTasks - 1

\* checkStatusChanges has returned (index.js:649-653) or thrown
\* (index.js:667-669): scheduleNextCheck with the check interval.
PostCheckSchedules ==
    /\ handler = "POST /check"
    /\ pc \in {"checked", "failed"}
    /\ caught' = (pc = "failed")
    /\ \E t1 \in scope.clocks : \E t2 \in ClockAfter(t1) :
          ScheduleNextCheck(config.checkIntervalSec, t1, t2)
    /\ UNCHANGED <<handler, response, envVars, asyncVars, cacheVars, storeVars, cycleVars, pushVars,
                   clockCheck>>

\* nextCheckSec: scheduleResult.delaySeconds || config.checkIntervalSec
NextCheckSecOrDefault ==
    IF scheduleResult.delaySeconds > 0
    THEN scheduleResult.delaySeconds
    ELSE config.checkIntervalSec

\* The three answers of POST /check (index.js:634-641, 655-666, 670).
PostCheckResponds ==
    /\ handler = "POST /check"
    /\ pc = "scheduled"
    /\ response' =
          IF caught
          THEN [status |-> 500, success |-> FALSE]
          ELSE IF isBedtime(clockCheck)
          THEN [status |-> 200, success |-> TRUE, bedtime |-> TRUE,
                nextCheckSec |-> scheduleResult.delaySeconds]
          ELSE [status |-> 200, success |-> TRUE, bedtime |-> FALSE,
                result |-> CheckResult, nextCheckSec |-> NextCheckSecOrDefault]
    /\ pc' = "done"
    /\ UNCHANGED <<handler, caught, envVars, asyncVars, cacheVars, storeVars, cycleVars, pushVars,
                   schedVars>>

(***************************************************************************)
(* The alert-mode variant (part_000): no cache, the previous status is     *)
(* read from Firestore for every observation; SMS and push; the next       *)
(* check's delay depends on the rides found down.                          *)
(***************************************************************************)
AlertPostCheck == "part_000 POST /check"

\* part_000:538 POST /check
PostCheckAlert ==
    /\ pc = "idle"
    /\ pendingTasks < MaxPending
    /\ handler' = AlertPostCheck
    /\ IF Len(config.parkIds) = 0
       THEN pc' = "checked" /\ parkIdx' = parkIdx
       ELSE pc' = "fetch" /\ parkIdx' = 1
    /\ UNCHANGED <<response, caught, envVars, asyncVars, cacheVars, storeVars, pushVars, schedVars,
                   obsCount, obs, previousStatus, totalChecked, totalChanges, ridesDown,
                   firestoreWrites, statusChanges, notificationResults, dispatched, writes,
                   fetchLog>>

\* fetchParkLiveData and the liveData guard (part_000:369-375)
FetchParkLiveDataAlert ==
    /\ handler = AlertPostCheck
    /\ pc = "fetch"
    /\ \E outcome \in {"ok", "error", "malformed"} :
          /\ fetchLog' = Append(fetchLog, outcome)
          /\ IF outcome = "ok"
             THEN pc' = "attractions" /\ parkIdx' = parkIdx
             ELSE NextPark
    /\ UNCHANGED <<handler, response, caught, envVars, asyncVars, cacheVars, storeVars, pushVars, schedVars,
                   obsCount, obs, previousStatus, totalChecked, totalChanges, ridesDown,
                   firestoreWrites, statusChanges, notificationResults, dispatched, writes>>

\* One entry of the park's liveData (part_000:377-412).  readOk: the read of
\* getPreviousStatus succeeds; writeOk: the set of saveStatus is acknowledged.
\* Either failure throws into the park's catch (part_000:413-415).
ObserveAlert(entity, status, readOk, writeOk) ==
    LET rideId == entity.id
        rideName == entity.name
        currentStatus == StatusOrUnknown(status)
        prev == IF rideId \in DOMAIN store THEN store[rideId].status ELSE None
        data == StatusRecord(currentStatus, rideName)
    IN  /\ handler = AlertPostCheck
        /\ pc = "attractions"
        /\ obsCount < scope.maxObs
        /\ obsCount' = obsCount + 1
        /\ obs' = [id |-> rideId, name |-> rideName,
                   entityType |-> entity.entityType, status |-> status]
        /\ IF entity.entityType # "ATTRACTION" \/ ~shouldMonitorRide(rideName)
           THEN /\ readOk /\ writeOk
                /\ previousStatus' = None
                /\ UNCHANGED <<pc, parkIdx, totalChecked, totalChanges, ridesDown,
                               statusChanges, writes, store>>
           ELSE /\ totalChecked' = totalChecked + 1
                /\ ridesDown' = IF isDownStatus(currentStatus) THEN ridesDown + 1 ELSE ridesDown
                /\ IF ~readOk
                   THEN /\ writeOk
                        /\ previousStatus' = None
                        /\ NextPark
                        /\ UNCHANGED <<totalChanges, statusChanges, writes, store>>
                   ELSE /\ previousStatus' = prev
                        /\ IF ChangeDetected(prev, currentStatus)
                           THEN /\ totalChanges' = totalChanges + 1
                                /\ statusChanges' = Append(statusChanges,
                                       [rideId |-> rideId, rideName |-> rideName,
                                        oldStatus |-> prev, newStatus |-> currentStatus])
                           ELSE UNCHANGED <<totalChanges, statusChanges>>
                        /\ writes' = Append(writes, [rideId |-> rideId, data |-> data])
                        /\ IF writeOk
                           THEN /\ store' = (rideId :> data) @@ store
                                /\ UNCHANGED <<pc, parkIdx>>
                           ELSE /\ NextPark
                                /\ UNCHANGED store
        /\ UNCHANGED <<handler, response, caught, envVars, asyncVars, cacheVars, devices, deviceCache,
                       pushVars, schedVars, firestoreWrites, notificationResults, dispatched,
                       fetchLog>>

ObserveAlertNext ==
    \E entity \in scope.entities, status \in scope.statuses :
        \E readOk \in BOOLEAN, writeOk \in BOOLEAN :
            ObserveAlert(entity, status, readOk, writeOk)

\* The park's liveData is exhausted (part_000:381, 412).
EndOfParkAlert ==
    /\ handler = AlertPostCheck
    /\ pc = "attractions"
    /\ NextPark
    /\ UNCHANGED <<handler, response, caught, envVars, asyncVars, cacheVars, storeVars, pushVars, schedVars,
                   obsCount, obs, previousStatus, totalChecked, totalChanges, ridesDown,
                   firestoreWrites, statusChanges, notificationResults, dispatched, writes,
                   fetchLog>>

\* The summary of part_000:434-443: a heading line, then one line per change.
SummaryNotificationAlert(changes) ==
    [title |-> [count |-> Len(changes), text |-> "Ride Status Changes"],
     body |-> <<[count |-> Len(changes), text |-> "rides changed:"]>>
              \o [i \in 1 .. Len(changes) |->
                     [rideName |-> changes[i].rideName, oldStatus |-> changes[i].oldStatus,
                      newStatus |-> changes[i].newStatus]],
     data |-> [type |-> "status_change_summary", count |-> Len(changes)]]

\* part_000:419-447
NotificationsForAlert(changes) ==
    IF Len(changes) = 0 THEN <<>>
    ELSE IF Len(changes) <= MaxIndividual
         THEN [i \in 1 .. Len(changes) |-> ChangeNotification(changes[i])]
         ELSE <<SummaryNotificationAlert(changes)>>

\* The notification block (part_000:419-447): the next sendNotification
\* call, or none is left.
NotifyAlert ==
    /\ handler = AlertPostCheck
    /\ pc = "notify"
    /\ LET todo == NotificationsForAlert(statusChanges)
       IN  IF dispatched < Len(todo)
           THEN /\ dispatched' = dispatched + 1
                /\ push' = todo[dispatched + 1]
                /\ pc' = "sms"
           ELSE /\ pc' = "checked"
                /\ UNCHANGED <<dispatched, push>>
    /\ UNCHANGED <<handler, response, caught, envVars, asyncVars, cacheVars, storeVars, schedVars,
                   parkIdx, obsCount, obs, previousStatus, totalChecked, totalChanges,
                   ridesDown, firestoreWrites, statusChanges, notificationResults, writes,
                   devList, devIdx, sent, failed, pushLog, smsResult, fetchLog, deviceReads>>

\* sendSmsNotification (part_000:213-251): every recipient is sent to, each
\* create succeeds or fails on its own; delivered is how many succeed.
SendSmsNotification ==
    /\ handler = AlertPostCheck
    /\ pc = "sms"
    /\ IF ~config.twilioConfigured \/ ~config.enableSms \/ Len(config.recipientNumbers) = 0
       THEN smsResult' = [sent |-> 0, failed |-> 0]
       ELSE \E delivered \in 0 .. Len(config.recipientNumbers) :
               smsResult' = [sent |-> delivered,
                             failed |-> Len(config.recipientNumbers) - delivered]
    /\ pc' = "push"
    /\ UNCHANGED <<handler, response, caught, envVars, asyncVars, cacheVars, storeVars, cycleVars,
                   schedVars, push, devList, devIdx, sent, failed, pushLog, deviceReads>>

\* The steps of sendSmsNotification (part_000:213-251), one recipient at a
\* time.  recipientNumbers.map (part_000:234) runs every callback up to its
\* await, so messages.create has been called once for every recipient when
\* map returns.
SmsStarted(recipients) ==
    [pc |-> "sending",
     attempts |-> [i \in 1 .. Len(recipients) |-> 1],
     settled |-> [i \in 1 .. Len(recipients) |-> "pending"],
     sent |-> 0, failed |-> 0]

\* One recipient's create is rejected, and the rejection ends the wait for
\* the others, which count as nothing.
SmsSettled_failFast(s, i, ok) ==
    IF ok THEN [s EXCEPT !.settled[i] = "sent", !.sent = @ + 1]
    ELSE [s EXCEPT !.settled = [j \in DOMAIN s.settled |->
                                    IF s.settled[j] = "pending" THEN "failed"
                                    ELSE s.settled[j]],
                   !.failed = @ + 1]

\* The create of recipient i settles: sent++ (part_000:241) or the catch
\* block's failed++ (part_000:244).
SmsSettled(s, i, ok) ==
    IF ok THEN [s EXCEPT !.settled[i] = "sent", !.sent = @ + 1]
    ELSE [s EXCEPT !.settled[i] = "failed", !.failed = @ + 1]

\* part_000:214-232: the early returns, or the sends are started.
SmsStarts ==
    /\ handler = AlertPostCheck
    /\ pc = "sms" /\ sms.pc = "idle"
    /\ IF ~config.twilioConfigured \/ ~config.enableSms \/ Len(config.recipientNumbers) = 0
       THEN /\ smsResult' = [sent |-> 0, failed |-> 0]
            /\ pc' = "push"
            /\ UNCHANGED sms
       ELSE /\ sms' = SmsStarted(config.recipientNumbers)
            /\ UNCHANGED <<pc, smsResult>>
    /\ UNCHANGED <<handler, response, caught, envVars, queueVars, directoryVars, overlapVars, cacheVars,
                   storeVars, cycleVars, schedVars, push, devList, devIdx, sent, failed,
                   pushLog, deviceReads>>

\* part_000:236-246: Twilio answers one of the pending creates.
SmsSettles ==
    /\ sms.pc = "sending"
    /\ \E i \in DOMAIN sms.settled, ok \in BOOLEAN :
          /\ sms.settled[i] = "pending"
          /\ sms' = SmsSettled(sms, i, ok)
    /\ UNCHANGED <<envVars, queueVars, directoryVars, overlapVars, cacheVars, storeVars, ctlVars, cycleVars,
                   pushVars, schedVars>>

\* part_000:249-250: Promise.all resolves when every callback has finished,
\* and the counters are returned.
SmsReturns ==
    /\ sms.pc = "sending"
    /\ \A i \in DOMAIN sms.settled : sms.settled[i] # "pending"
    /\ smsResult' = [sent |-> sms.sent, failed |-> sms.failed]
    /\ sms' = SmsIdle
    /\ pc' = "push"
    /\ UNCHANGED <<handler, response, caught, envVars, queueVars, directoryVars, overlapVars, cacheVars,
                   storeVars, cycleVars, schedVars, push, devList, devIdx, sent, failed,
                   pushLog, deviceReads>>

\* sendNotification returns {sms, push} to the notification block
\* (part_000:256-269, 425, 440).
SendNotificationReturns(result) ==
    /\ notificationResults' = [sms |-> smsResult, push |-> result]
    /\ pc' = "notify"

\* The head of sendPushNotification (part_000:144-163) with getDeviceTokens
\* (part_000:99-105): the devices are read from Firestore on every call.
SendPushNotificationAlert ==
    /\ handler = AlertPostCheck
    /\ pc = "push"
    /\ \E readOk \in BOOLEAN :
          IF ~firebaseInitialized \/ ~config.enablePush
          THEN /\ readOk
               /\ SendNotificationReturns([sent |-> 0, failed |-> 0])
               /\ UNCHANGED <<devList, devIdx, sent, failed>>
          ELSE IF ~readOk
          THEN /\ Throws
               /\ UNCHANGED <<devList, devIdx, sent, failed, notificationResults>>
          ELSE IF Len(ActiveDevices) = 0
          THEN /\ SendNotificationReturns([sent |-> 0, failed |-> 0])
               /\ UNCHANGED <<devList, devIdx, sent, failed>>
          ELSE /\ devList' = ActiveDevices
               /\ devIdx' = 1 /\ sent' = 0 /\ failed' = 0
               /\ pc' = "send"
               /\ UNCHANGED notificationResults
    /\ deviceReads' = IF firebaseInitialized /\ config.enablePush
                      THEN deviceReads + 1
                      ELSE deviceReads
    /\ UNCHANGED <<handler, response, caught, envVars, asyncVars, cacheVars, storeVars, schedVars,
                   parkIdx, obsCount, obs, previousStatus, totalChecked, totalChanges,
                   ridesDown, firestoreWrites, statusChanges, dispatched, writes,
                   push, pushLog, smsResult, fetchLog>>

\* One iteration of the loop over the devices (part_000:167-205), with
\* markTokenInvalid (part_000:133-139).
SendToDeviceAlert(outcome, markOk) ==
    LET token == devList[devIdx]
        last == devIdx = Len(devList)
        sentNow == IF outcome = "ok" THEN sent + 1 ELSE sent
        failedNow == IF outcome = "ok" THEN failed ELSE failed + 1
    IN  /\ handler = AlertPostCheck
        /\ pc = "send"
        /\ pushLog' = Append(pushLog, [dispatch |-> dispatched, token |-> token,
                                       title |-> push.title, outcome |-> outcome,
                                       marked |-> MarkResult(outcome, markOk)])
        /\ sent' = sentNow
        /\ failed' = failedNow
        /\ IF outcome = "invalid-token" /\ ~markOk
           THEN /\ Throws
                /\ UNCHANGED <<devices, devIdx, notificationResults>>
           ELSE /\ outcome # "invalid-token" => markOk
                /\ devices' = IF outcome = "invalid-token"
                              THEN [devices EXCEPT ![token] = InvalidatedDevice(@)]
                              ELSE devices
                /\ IF last
                   THEN /\ SendNotificationReturns([sent |-> sentNow, failed |-> failedNow])
                        /\ UNCHANGED devIdx
                   ELSE /\ devIdx' = devIdx + 1
                        /\ UNCHANGED <<pc, notificationResults>>
        /\ UNCHANGED <<handler, response, caught, envVars, asyncVars, cacheVars, store, deviceCache,
                       schedVars, parkIdx, obsCount, obs, previousStatus, totalChecked,
                       totalChanges, ridesDown, firestoreWrites, statusChanges, dispatched,
                       writes, push, devList, smsResult, fetchLog, deviceReads>>

SendToDeviceAlertNext ==
    \E outcome \in {"ok", "error", "invalid-token"}, markOk \in BOOLEAN :
        SendToDeviceAlert(outcome, markOk)

\* result.ridesDown > 0 ? config.alertIntervalSec : config.normalIntervalSec
nextInterval_moreThanOneDown(down) ==
    IF down > 1 THEN config.alertIntervalSec ELSE config.normalIntervalSec

nextInterval(down) ==
    IF down > 0 THEN config.alertIntervalSec ELSE config.normalIntervalSec

\* checkStatusChanges has returned (part_000:543-553) or thrown
\* (part_000:565-567): scheduleNextCheck (part_000:316-352) up to its await
\* of createTask.
PostCheckAlertSchedules ==
    /\ handler = AlertPostCheck
    /\ pc \in {"checked", "failed"}
    /\ caught' = (pc = "failed")
    /\ delayArg' = IF pc = "checked" THEN nextInterval(ridesDown) ELSE config.normalIntervalSec
    /\ IF ~config.dynamicScheduling \/ ~config.schedulingConfigured
       THEN /\ scheduleResult' = [NoSchedule EXCEPT !.called = TRUE]
            /\ pc' = "scheduled"
       ELSE /\ pc' = "createTask"
            /\ UNCHANGED scheduleResult
    /\ UNCHANGED <<handler, response, envVars, asyncVars, cacheVars, storeVars, cycleVars, pushVars,
                   clockCheck, clockBedtime, clockUntilEnd, nextCheck, taskLog>>

\* createTask completes (part_000:346-351); a failure is logged.
CreateTaskAlert ==
    /\ handler = AlertPostCheck
    /\ pc = "createTask"
    /\ \E ok \in BOOLEAN :
          /\ scheduleResult' = [called |-> TRUE, scheduled |-> ok,
                                delaySeconds |-> IF ok THEN delayArg ELSE -1,
                                reason |-> [kind |-> None]]
          /\ taskLog' = Append(taskLog, [delaySeconds |-> delayArg, created |-> ok])
          /\ pendingTasks' = QueueAfterCreate(pendingTasks, ok)
    /\ pc' = "scheduled"
    /\ UNCHANGED <<handler, response, caught, envVars, localVars, cacheVars, storeVars, cycleVars,
                   pushVars, clockCheck, delayArg, clockBedtime, clockUntilEnd, nextCheck>>

\* The answers of POST /check (part_000:555-564, 568-571).
PostCheckAlertResponds ==
    /\ handler = AlertPostCheck
    /\ pc = "scheduled"
    /\ response' =
          IF caught
          THEN [status |-> 500, success |-> FALSE]
          ELSE [status |-> 200, success |-> TRUE,
                result |-> [checked |-> totalChecked, changes |-> totalChanges,
                            ridesDown |-> ridesDown, notifications |-> notificationResults],
                nextCheckSec |-> delayArg,
                mode |-> IF ridesDown > 0 THEN "alert" ELSE "normal"]
    /\ pc' = "done"
    /\ UNCHANGED <<handler, caught, envVars, asyncVars, cacheVars, storeVars, cycleVars, pushVars,
                   schedVars>>

(***************************************************************************)
(* Configurations and input sets.                                          *)
(***************************************************************************)
CHECK_INTERVAL_SEC == 30
BEDTIME_START == 1
BEDTIME_END == 7
NORMAL_INTERVAL_SEC == 300
ALERT_INTERVAL_SEC == 60

\* The defaults of index.js:7-25 and part_000:8-28, with one park configured.
DefaultConfig ==
    [parkIds |-> <<"park1">>,
     watchedRides |-> <<>>,
     checkIntervalSec |-> CHECK_INTERVAL_SEC,
     bedtimeStart |-> BEDTIME_START,
     bedtimeEnd |-> BEDTIME_END,
     bedtimeEnabled |-> TRUE,
     dynamicScheduling |-> FALSE,
     schedulingConfigured |-> TRUE,
     normalIntervalSec |-> NORMAL_INTERVAL_SEC,
     alertIntervalSec |-> ALERT_INTERVAL_SEC,
     enableSms |-> TRUE,
     enablePush |-> TRUE,
     twilioConfigured |-> TRUE,
     recipientNumbers |-> <<>>]

\* Entities a park's live data can hold.
SpaceMountain == [id |-> "A", name |-> <<"S", "p">>, entityType |-> "ATTRACTION"]
SpaceMountainRenamed == [id |-> "A", name |-> <<"s", "P", "2">>, entityType |-> "ATTRACTION"]
TeaCups == [id |-> "B", name |-> <<"T">>, entityType |-> "ATTRACTION"]
Parade == [id |-> "C", name |-> <<"S", "p">>, entityType |-> "SHOW"]

WatchSpace == << <<" ", "s", "P", " ">> >>

MaxObs == 2

InitProcess ==
    /\ statusCache = EmptyMap
    /\ statusCacheInitialized = FALSE
    /\ warmLog = <<>>
    /\ deviceCache = [tokens |-> <<>>, ageMs |-> DEVICE_CACHE_TTL_MS]
    /\ handler = None /\ pc = "idle" /\ response = NoResponse /\ caught = FALSE
    /\ reader = ReaderIdle /\ mutator = MutatorIdle /\ dirHist = NoHistory
    /\ inv = [i \in Invocations |-> InvocationIdle] /\ wallClock = 0
    /\ sms = SmsIdle
    /\ pendingTasks = 0
    /\ feed = InitialFeed
    /\ LocalsIdle

\* A process starts with configuration cfg on a runtime with hour cycle hc,
\* the ride-status collection empty and the tokens of sc registered.
InitWith(cfg, hc, sc) ==
    /\ config = cfg
    /\ hourCycle = hc
    /\ firebaseInitialized = TRUE
    /\ scope = sc
    /\ store = EmptyMap
    /\ devices = [t \in sc.tokens |-> RegisteredDevice]
    /\ InitProcess

(***************************************************************************)
(* Spec: the diff engine.  GET /check on the cached variant, two rides     *)
(* (one of them renamed by the feed now and then) and a show, every ride   *)
(* watched or only the rides matching WatchSpace, no device registered.    *)
(***************************************************************************)
Init ==
    \E watched \in {<<>>, WatchSpace} :
        InitWith([DefaultConfig EXCEPT !.watchedRides = watched], "h23",
                 [entities |-> {SpaceMountain, SpaceMountainRenamed, TeaCups, Parade},
                  statuses |-> {"OPERATING", "DOWN", Absent},
                  maxObs |-> MaxObs,
                  tokens |-> {},
                  clocks |-> {}])

Next ==
    \/ GetCheck
    \/ InitializeStatusCache
    \/ FetchParkLiveData
    \/ ObserveNext
    \/ EndOfPark
    \/ Notify
    \/ SendPushNotification
    \/ GetCheckResponds
    \/ Return
    \/ Restart

Spec == Init /\ [][Next]_vars

(***************************************************************************)
(* SpecBedtime: the quiet-hours scheduler.  POST /start with dynamic       *)
(* scheduling on, for every pair of bedtime hours, at the first and the    *)
(* last second of every hour of the day, on both hour cycles.              *)
(***************************************************************************)
BedtimeConfigs ==
    {[DefaultConfig EXCEPT !.dynamicScheduling = TRUE, !.bedtimeEnabled = FALSE]}
    \cup {[DefaultConfig EXCEPT !.dynamicScheduling = TRUE,
                                !.bedtimeStart = h0, !.bedtimeEnd = h1] :
             h0 \in Hours, h1 \in Hours}

HourEdges ==
    {TimeOfDay(h, 0, 0) : h \in Hours}
    \cup {TimeOfDay(h, SecondsPerMinute - 1, SecondsPerMinute - 1) : h \in Hours}

InitBedtime ==
    \E cfg \in BedtimeConfigs, hc \in {"h23", "h24"} :
        InitWith(cfg, hc, [entities |-> {}, statuses |-> {}, maxObs |-> 0,
                           tokens |-> {}, clocks |-> HourEdges])

NextBedtime ==
    \/ PostStart
    \/ CreateTask
    \/ PostStartResponds
    \/ Return

SpecBedtime == InitBedtime /\ [][NextBedtime]_vars

(***************************************************************************)
(* SpecPush: the push dispatcher.  POST /test-push with three registered   *)
(* devices, every outcome of each send and of each deactivation write.     *)
(***************************************************************************)
InitPush ==
    InitWith(DefaultConfig, "h23",
             [entities |-> {}, statuses |-> {}, maxObs |-> 0,
              tokens |-> {"t1", "t2", "t3"}, clocks |-> {}])

NextPush ==
    \/ TestPush
    \/ SendPushNotification
    \/ SendToDeviceNext
    \/ TestPushFails
    \/ Return
    \/ Restart
    \/ Elapse

SpecPush == InitPush /\ [][NextPush]_vars

(***************************************************************************)
(* SpecPost: the scheduled cycle.  POST /check on the cached variant with  *)
(* dynamic scheduling on, one ride, two registered devices, the clock      *)
(* outside or inside the quiet hours.                                      *)
(***************************************************************************)
PostClocks == {TimeOfDay(0, 0, 0), TimeOfDay(BEDTIME_END, 0, 0) - 1}

InitPost ==
    InitWith([DefaultConfig EXCEPT !.dynamicScheduling = TRUE], "h23",
             [entities |-> {SpaceMountain}, statuses |-> {"OPERATING", "DOWN"},
              maxObs |-> MaxObs, tokens |-> {"t1", "t2"}, clocks |-> PostClocks])

NextPost ==
    \/ PostCheck
    \/ InitializeStatusCache
    \/ FetchParkLiveData
    \/ ObserveNext
    \/ EndOfPark
    \/ Notify
    \/ SendPushNotification
    \/ SendToDeviceNext
    \/ PostCheckSchedules
    \/ CreateTask
    \/ PostCheckResponds
    \/ Return
    \/ Restart
    \/ Elapse

SpecPost == InitPost /\ [][NextPost]_vars

(***************************************************************************)
(* SpecBatch: the notification block.  GET /check with one ride whose      *)
(* status the feed reports up to MaxBatchObs times in a cycle, one device. *)
(***************************************************************************)
MaxBatchObs == 5

InitBatch ==
    InitWith(DefaultConfig, "h23",
             [entities |-> {SpaceMountain}, statuses |-> {"OPERATING", "DOWN"},
              maxObs |-> MaxBatchObs, tokens |-> {"t1"}, clocks |-> {}])

NextBatch ==
    \/ GetCheck
    \/ InitializeStatusCache
    \/ FetchParkLiveData
    \/ ObserveNext
    \/ EndOfPark
    \/ Notify
    \/ SendPushNotification
    \/ SendToDeviceNext
    \/ GetCheckResponds
    \/ Return

SpecBatch == InitBatch /\ [][NextBatch]_vars

(***************************************************************************)
(* SpecAlert: the alert-mode variant.  POST /check of part_000 with a ride *)
(* and a show, every status of DOWN_STATUSES among the observed ones, one  *)
(* SMS recipient and one device, dynamic scheduling on or off.             *)
(***************************************************************************)
AlertStatuses == {"OPERATING", Absent} \cup DOWN_STATUSES

InitAlert ==
    \E dynamic \in BOOLEAN :
        InitWith([DefaultConfig EXCEPT !.dynamicScheduling = dynamic,
                                       !.recipientNumbers = <<"+1">>],
                 "h23",
                 [entities |-> {SpaceMountain, Parade},
                  statuses |-> AlertStatuses,
                  maxObs |-> MaxObs, tokens |-> {"t1"}, clocks |-> {}])

NextAlert ==
    \/ PostCheckAlert
    \/ FetchParkLiveDataAlert
    \/ ObserveAlertNext
    \/ EndOfParkAlert
    \/ NotifyAlert
    \/ SendSmsNotification
    \/ SendPushNotificationAlert
    \/ SendToDeviceAlertNext
    \/ PostCheckAlertSchedules
    \/ CreateTaskAlert
    \/ PostCheckAlertResponds
    \/ Return

SpecAlert == InitAlert /\ [][NextAlert]_vars

(***************************************************************************)
(* SpecSms: the SMS channel of the alert-mode variant.  POST /check cycles *)
(* over one ride, no device registered, with none, two or three recipient  *)
(* numbers, Twilio configured or not and SMS enabled or not; the sends of  *)
(* a sendSmsNotification call settle one at a time in any order.           *)
(***************************************************************************)
SmsRecipients == {<<>>, <<"+1", "+2">>, <<"+1", "+2", "+3">>}

InitSms ==
    \E twilio \in BOOLEAN, enabled \in BOOLEAN, recipients \in SmsRecipients :
        InitWith([DefaultConfig EXCEPT !.twilioConfigured = twilio,
                                       !.enableSms = enabled,
                                       !.recipientNumbers = recipients],
                 "h23",
                 [entities |-> {SpaceMountain},
                  statuses |-> {"OPERATING", "DOWN"},
                  maxObs |-> 1, tokens |-> {}, clocks |-> {}])

NextSms ==
    \/ PostCheckAlert
    \/ FetchParkLiveDataAlert
    \/ ObserveAlertNext
    \/ EndOfParkAlert
    \/ NotifyAlert
    \/ SmsStarts
    \/ SmsSettles
    \/ SmsReturns
    \/ SendPushNotificationAlert
    \/ PostCheckAlertSchedules
    \/ PostCheckAlertResponds
    \/ Return

SpecSms == InitSms /\ [][NextSms]_vars

(***************************************************************************)
(* Properties of the diff engine (cached variant).                         *)
(***************************************************************************)
Monitored(o) == o.entityType = "ATTRACTION" /\ shouldMonitorRide(o.name)

\* The step that processes one monitored feed entry; obs' is the entry.
ObserveStep == pc = "attractions" /\ obsCount' = obsCount + 1 /\ Monitored(obs')

ObservedStatus(o) == StatusOrUnknown(o.status)

ObservedRecord(o) == StatusRecord(ObservedStatus(o), o.name)

\* C1: an observation of a monitored attraction whose cache entry holds a
\* different status appends exactly one event {rideId, rideName, oldStatus =
\* cached status, newStatus = observed status} to the cycle's changes and
\* issues exactly one durable write, for that ride, and nothing else is
\* emitted or written by the step.
C1_ChangeEmitsOneEventOneWrite ==
    [][ (/\ ObserveStep
         /\ obs'.id \in DOMAIN statusCache
         /\ statusCache[obs'.id].status # ObservedStatus(obs'))
        => /\ statusChanges' = Append(statusChanges,
                  [rideId |-> obs'.id, rideName |-> obs'.name,
                   oldStatus |-> statusCache[obs'.id].status,
                   newStatus |-> ObservedStatus(obs')])
           /\ totalChanges' = totalChanges + 1
           /\ writes' = Append(writes, [rideId |-> obs'.id, data |-> ObservedRecord(obs')])
      ]_vars

\* A changed status was observed: the event and the write are there.
C1_Witness ==
    /\ handler = "GET /check"
    /\ Monitored(obs)
    /\ previousStatus \notin {None, ObservedStatus(obs)}
    /\ Len(statusChanges) = 2
    /\ statusChanges[2].rideId = obs.id
    /\ statusChanges[2].oldStatus = previousStatus
    /\ statusChanges[1].rideId # obs.id
    /\ Len(writes) = 2

\* C2: an observation of a monitored attraction whose cache entry holds the
\* observed status emits no event and issues no durable write (the durable
\* collection is left as it is), and the cache entry is set anew from the
\* observation.
C2_SameStatusNoEventNoWrite ==
    [][ (/\ ObserveStep
         /\ obs'.id \in DOMAIN statusCache
         /\ statusCache[obs'.id].status = ObservedStatus(obs'))
        => /\ statusChanges' = statusChanges
           /\ totalChanges' = totalChanges
           /\ writes' = writes
           /\ firestoreWrites' = firestoreWrites
           /\ store' = store
           /\ statusCache' = (obs'.id :> ObservedRecord(obs')) @@ statusCache
      ]_vars

\* The status is the cached one and the ride's name is not: the cache entry
\* has the new name, the durable record the old one, and nothing was written.
C2_Witness ==
    /\ handler = "GET /check"
    /\ pc = "attractions"
    /\ Monitored(obs)
    /\ previousStatus = ObservedStatus(obs)
    /\ statusCache[obs.id] = ObservedRecord(obs)
    /\ obs.id \in DOMAIN store
    /\ store[obs.id].status = statusCache[obs.id].status
    /\ store[obs.id].rideName # statusCache[obs.id].rideName
    /\ writes = <<>>
    /\ statusChanges = <<>>

\* C3: the first observation of a ride that has no cache entry emits no
\* event, adds the cache entry and takes the changed path of saveStatus:
\* exactly one durable write is issued for the ride, and once it is
\* acknowledged the record is stored and the write is counted (saveStatus
\* returned true); a rejected write abandons the park.
C3_FirstObservationNoEvent ==
    [][ (/\ ObserveStep
         /\ obs'.id \notin DOMAIN statusCache)
        => /\ statusChanges' = statusChanges
           /\ totalChanges' = totalChanges
           /\ obs'.id \in DOMAIN statusCache'
           /\ statusCache'[obs'.id] = ObservedRecord(obs')
           /\ writes' = Append(writes, [rideId |-> obs'.id, data |-> ObservedRecord(obs')])
           /\ \/ /\ store' = (obs'.id :> ObservedRecord(obs')) @@ store
                 /\ firestoreWrites' = firestoreWrites + 1
                 /\ pc' = "attractions"
              \/ /\ store' = store
                 /\ firestoreWrites' = firestoreWrites
                 /\ pc' # "attractions"
      ]_vars

\* A first observation was made after a warm-up that found other rides: the
\* ride is in the cache, its write was counted, no event exists.
C3_Witness ==
    /\ handler = "GET /check"
    /\ pc = "attractions"
    /\ Monitored(obs)
    /\ previousStatus = None
    /\ obs.id \in DOMAIN statusCache
    /\ Cardinality(DOMAIN statusCache) = 2
    /\ statusChanges = <<>>
    /\ firestoreWrites = 1
    /\ Len(writes) = 1
    /\ writes[1].rideId = obs.id


(***************************************************************************)
(* Properties of the quiet-hours scheduler, over SpecBedtime.              *)
(***************************************************************************)

\* getNextCheckDelay has just decided, on the clock reads clockBedtime and
\* (when suppressed) clockUntilEnd.
Decided == handler = "POST /start" /\ pc = "createTask"

WindowOneToSeven ==
    /\ config.bedtimeEnabled
    /\ config.bedtimeStart = BEDTIME_START
    /\ config.bedtimeEnd = BEDTIME_END

\* The window of the specification, on the hour of the wall clock.
InWindow(t) ==
    LET hour == HourOf(t)
        H0 == config.bedtimeStart
        H1 == config.bedtimeEnd
    IN  \/ H0 < H1 /\ H0 <= hour /\ hour < H1
        \/ H0 >= H1 /\ (hour >= H0 \/ hour < H1)

\* Seconds from t to the next occurrence of bedtimeEnd:00:00.
SecondsToNextEnd(t) ==
    LET end == TimeOfDay(config.bedtimeEnd, 0, 0)
    IN  IF end > t THEN end - t ELSE end + SecondsPerDay - t

\* C6 as stated: with start=1 and end=7, isBedtime() reports suppressed at
\* hour 0, suppressed at hour 6 and not suppressed at hour 7.
C6_AsStated ==
    (Decided /\ WindowOneToSeven) =>
        /\ HourOf(clockBedtime) = 0 => nextCheck.isBedtime
        /\ HourOf(clockBedtime) = BEDTIME_END - 1 => nextCheck.isBedtime
        /\ HourOf(clockBedtime) = BEDTIME_END => ~nextCheck.isBedtime

\* C6, amended: with start=1 and end=7 (a same-day window, 1 < 7),
\* isBedtime() reports not suppressed at hour 0, suppressed at hour 6 and
\* not suppressed at hour 7.
C6_WindowOneToSevenBoundaries ==
    (Decided /\ WindowOneToSeven) =>
        /\ HourOf(clockBedtime) = 0 => ~nextCheck.isBedtime
        /\ HourOf(clockBedtime) = BEDTIME_END - 1 => nextCheck.isBedtime
        /\ HourOf(clockBedtime) = BEDTIME_END => ~nextCheck.isBedtime

C6_Witness ==
    /\ Decided /\ WindowOneToSeven
    /\ HourOf(clockBedtime) = 0
    /\ ~nextCheck.isBedtime

\* C7 as stated: for every start hour H0, end hour H1 and current hour,
\* with quiet hours enabled isBedtime() is true exactly when
\* (H0 < H1 and H0 <= hour < H1) or (H0 >= H1 and (hour >= H0 or hour < H1));
\* with quiet hours disabled it is false.
C7_AsStated ==
    Decided =>
        (nextCheck.isBedtime <=> (config.bedtimeEnabled /\ InWindow(clockBedtime)))

\* The midnight hour, formatted as 24, falls outside a window that starts at 0.
C7_MidnightMissed ==
    /\ Decided /\ config.bedtimeEnabled
    /\ config.bedtimeStart = 0 /\ config.bedtimeEnd = BEDTIME_END - 1
    /\ HourOf(clockBedtime) = 0
    /\ ~nextCheck.isBedtime

\* C8 as stated: at every time inside the quiet window getNextCheckDelay
\* returns (seconds from that time to the next bedtimeEnd:00:00) + 60, never
\* below 60; outside the window it returns the requested normal delay.  The
\* time is any of the clock reads of the call.
C8_AsStated ==
    (Decided /\ config.bedtimeEnabled) =>
        IF InWindow(clockBedtime)
        THEN /\ nextCheck.delaySeconds >= BedtimeBufferSec
             /\ \E t \in {clockBedtime, clockUntilEnd} :
                   /\ t >= 0 /\ InWindow(t)
                   /\ nextCheck.delaySeconds = SecondsToNextEnd(t) + BedtimeBufferSec
        ELSE nextCheck.delaySeconds = delayArg

\* The window is left between the two clock reads: the delay is a whole day.
C8_WindowEndsBetweenReads ==
    /\ Decided /\ WindowOneToSeven /\ hourCycle = "h23"
    /\ clockBedtime = TimeOfDay(BEDTIME_END, 0, 0) - 1
    /\ clockUntilEnd = TimeOfDay(BEDTIME_END, 0, 0)
    /\ nextCheck.delaySeconds = SecondsPerDay + BedtimeBufferSec

(***************************************************************************)
(* Properties of the push dispatcher, over SpecPush.                       *)
(***************************************************************************)

\* A send to the device was attempted in the current dispatch.
Attempted(token) ==
    \E i \in 1 .. Len(pushLog) :
        pushLog[i].token = token /\ pushLog[i].dispatch = dispatched

\* sendPushNotification, having resolved a list of targets, is over.
DispatchOver ==
    /\ handler = "POST /test-push"
    /\ pc \in {"done", "failed"}
    /\ devList # <<>>

\* C10 as stated: in sendPushNotification a send is attempted to every
\* target of the list, whatever sends fail: a failure on one target never
\* prevents the attempt to another target of the same dispatch.
C10_AsStated ==
    DispatchOver => \A i \in 1 .. Len(devList) : Attempted(devList[i])

\* The deactivation write for the first device is rejected: the dispatch is
\* over and the devices after it were never tried.
C10_SiblingsSkipped ==
    /\ DispatchOver
    /\ Len(devList) > 1
    /\ Len(pushLog) = 1
    /\ pushLog[1].outcome = "invalid-token"
    /\ ~Attempted(devList[Len(devList)])

(***************************************************************************)
(* Properties of the scheduled cycle, over SpecPost.                       *)
(***************************************************************************)

\* A POST /check cycle that found ride A cached as OPERATING and observed it
\* once, as DOWN, has resolved its push targets and called scheduleNextCheck.
DownCycleScheduled ==
    /\ handler = "POST /check"
    /\ pc \in {"createTask", "scheduled"}
    /\ ~isBedtime(clockCheck)
    /\ obsCount = 1
    /\ obs.id = SpaceMountain.id /\ obs.status = "DOWN"
    /\ previousStatus = "OPERATING"
    /\ devList # <<>>

RideDown == getNotificationTitle("DOWN")

\* C4 as stated: a cycle that observes A as DOWN while A is cached as
\* OPERATING and a device is active produces exactly one event
\* {A, OPERATING, DOWN}, sets the cache entry of A to DOWN, issues one
\* durable write for A, sends one push titled "Ride Down" to every active
\* target and sets the next-cycle delay to the alert interval.
C4_AsStated ==
    DownCycleScheduled =>
        /\ Len(statusChanges) = 1
        /\ statusChanges[1].rideId = SpaceMountain.id
        /\ statusChanges[1].oldStatus = "OPERATING"
        /\ statusChanges[1].newStatus = "DOWN"
        /\ statusCache[SpaceMountain.id].status = "DOWN"
        /\ Len(writes) = 1 /\ writes[1].rideId = SpaceMountain.id
        /\ \A i \in 1 .. Len(devList) :
              Cardinality({j \in 1 .. Len(pushLog) :
                              /\ pushLog[j].token = devList[i]
                              /\ pushLog[j].title = RideDown}) = 1
        /\ delayArg = config.alertIntervalSec

\* The cycle went as stated up to the delay: every target got its push, and
\* scheduleNextCheck was called with the check interval.
C4_CheckIntervalAfterDown ==
    /\ DownCycleScheduled
    /\ ~caught
    /\ Len(statusChanges) = 1
    /\ Len(pushLog) = Len(devList)
    /\ delayArg = config.checkIntervalSec
    /\ delayArg # config.alertIntervalSec

(***************************************************************************)
(* Properties of the notification block, over SpecBatch.                   *)
(***************************************************************************)

\* checkStatusChanges is over: it returned or threw.
CycleOver == handler = "GET /check" /\ pc \in {"checked", "failed"}

\* C9 as stated: a cycle with n change events invokes the dispatcher n times,
\* once per event in order, when 1 <= n <= 3; once, with the summary, when
\* n >= 4; and not at all when n = 0.
C9_AsStated ==
    CycleOver =>
        LET n == Len(statusChanges)
        IN  /\ n = 0 => dispatched = 0
            /\ (1 <= n /\ n <= MaxIndividual) =>
                  dispatched = n /\ push = ChangeNotification(statusChanges[n])
            /\ n > MaxIndividual =>
                  dispatched = 1 /\ push = SummaryNotification(statusChanges)

\* Three events, and the cycle is over after the first dispatch threw.
C9_DispatchesCutShort ==
    /\ CycleOver
    /\ pc = "failed"
    /\ Len(statusChanges) = MaxIndividual
    /\ dispatched = 1

(***************************************************************************)
(* Properties of the alert-mode variant, over SpecAlert.                   *)
(***************************************************************************)

\* POST /check of part_000 has called scheduleNextCheck after a cycle that
\* did not throw.
AlertCycleScheduled ==
    /\ handler = AlertPostCheck
    /\ pc \in {"createTask", "scheduled"}
    /\ ~caught

\* C5: in the alert-mode variant, after a cycle that completes without
\* throwing, the delay passed to scheduleNextCheck is the alert interval if
\* the cycle's ridesDown count is above 0 and the normal interval if it is 0.
C5_AlertIntervalWhenRidesDown ==
    AlertCycleScheduled =>
        /\ ridesDown > 0 => delayArg = config.alertIntervalSec
        /\ ridesDown = 0 => delayArg = config.normalIntervalSec

C5_Witness ==
    /\ AlertCycleScheduled
    /\ ridesDown = 1
    /\ obs.status \in DOWN_STATUSES
    /\ delayArg = config.alertIntervalSec
    /\ delayArg # config.normalIntervalSec

(***************************************************************************)
(* Properties of permanent-token handling, over SpecPush.                  *)
(***************************************************************************)

\* One iteration of the send loop is taken; LastSend is its log entry.
SendStep == pc = "send" /\ Len(pushLog') = Len(pushLog) + 1

LastSend(log) == log[Len(log)]

\* C11: a send that fails with a permanently-invalid-token code has the
\* device's record set to active=false, invalid=true and the device cache
\* invalidated (once the deactivation write is acknowledged; a rejected write
\* changes nothing); a send that succeeds or fails with another error
\* changes no device record and no field of the device cache.
C11_InvalidTokenDeactivates ==
    [][SendStep =>
          LET e == LastSend(pushLog')
          IN  /\ (e.outcome = "invalid-token") <=> (e.marked # "not called")
              /\ e.marked = "acknowledged" =>
                    /\ devices'[e.token].active = FALSE
                    /\ devices'[e.token].invalid = TRUE
                    /\ \A t \in DOMAIN devices \ {e.token} : devices'[t] = devices[t]
                    /\ deviceCache'.tokens = deviceCache.tokens
                    /\ deviceCache'.ageMs >= DEVICE_CACHE_TTL_MS
              /\ e.marked = "rejected" =>
                    devices' = devices /\ deviceCache' = deviceCache
              /\ e.marked = "not called" =>
                    devices' = devices /\ deviceCache' = deviceCache]_vars

C11_Witness ==
    /\ handler = "POST /test-push"
    /\ pushLog # <<>>
    /\ LastSend(pushLog).marked = "acknowledged"
    /\ devices[LastSend(pushLog).token] = [active |-> FALSE, invalid |-> TRUE]
    /\ Len(deviceCache.tokens) > 0
    /\ ~DeviceCacheFresh

(***************************************************************************)
(* Properties of a failing deactivation write, over SpecBatch.             *)
(***************************************************************************)

\* A deactivation write of the current handler was rejected.
MarkRejected == \E i \in 1 .. Len(pushLog) : pushLog[i].marked = "rejected"

\* C12 as stated: when the deactivation write triggered by a permanently
\* invalid token fails, the failure is only logged: sendPushNotification
\* returns its counters and the enclosing check cycle does not fail.
C12_AsStated ==
    MarkRejected => (pc # "failed" /\ ~caught /\ response.status # 500)

\* The rejected write ended the cycle: GET /check answers 500.
C12_CycleFails ==
    /\ handler = "GET /check"
    /\ MarkRejected
    /\ caught
    /\ response.status = 500
    /\ notificationResults = NoResult

(***************************************************************************)
(* Properties of the device cache within its TTL, over SpecBatch.          *)
(***************************************************************************)

\* sendPushNotification calls getDeviceTokens in this step.
GetDeviceTokensStep == pc = "push" /\ pc' # "push" /\ firebaseInitialized

\* The cache was loaded less than the TTL ago and no registerDevice,
\* unregisterDevice or markTokenInvalid has reset its age since.
LoadedWithinTtl == deviceCache.ageMs < DEVICE_CACHE_TTL_MS

\* C13 as stated: for any content of the durable device store, a
\* getDeviceTokens call that follows another one within the TTL with no
\* register, unregister or mark-invalid in between returns the identical list
\* and performs no durable read.
C13_AsStated ==
    [][(GetDeviceTokensStep /\ LoadedWithinTtl) =>
          /\ deviceReads' = deviceReads
          /\ deviceCache'.tokens = deviceCache.tokens
          /\ pc' # "failed"]_vars

\* Two dispatches of one cycle, none of which deactivated a device, each
\* read the durable store: the store holds no active device.
C13_EmptyListReadTwice ==
    /\ handler = "GET /check"
    /\ deviceReads = 2
    /\ pushLog = <<>>
    /\ ActiveDevices = <<>>
    /\ deviceCache = [tokens |-> <<>>, ageMs |-> 0]

(***************************************************************************)
(* Properties of a failed warm-up, over Spec.                              *)
(***************************************************************************)

\* checkStatusChanges passes its call of initializeStatusCache in this step.
WarmStep == pc = "init" /\ pc' # "init"

\* The bulk read of this process was attempted once and failed.
WarmFailed == warmLog = <<"failed">>

\* C17: if the bulk read of the warm-up fails, the Status Cache is still
\* marked initialized and left as it was, the cycle goes on to fetch its first
\* park, and no later step of the process attempts the bulk read again.
C17_FailedWarmNotRetried ==
    [][/\ (WarmStep /\ ~WarmFailed /\ WarmFailed') =>
             /\ statusCacheInitialized'
             /\ statusCache' = statusCache
             /\ pc' = "fetch" /\ parkIdx' = 1
       /\ (WarmFailed /\ WarmStep) =>
             /\ warmLog' = warmLog
             /\ statusCacheInitialized'
             /\ pc' = "fetch"
       /\ WarmFailed => (statusCacheInitialized /\ (warmLog' = warmLog \/ warmLog' = <<>>))]_vars

\* A later cycle of a process whose warm-up failed is fetching, with the
\* entries of its earlier cycles in the cache and no second bulk read.
C17_Witness ==
    /\ WarmFailed
    /\ statusCacheInitialized
    /\ handler = "GET /check" /\ pc = "fetch"
    /\ statusCache # EmptyMap

(***************************************************************************)
(* GET /check and POST /check by day and in the bedtime window, with       *)
(* dynamic scheduling on or off and the queue configured or not.           *)
(***************************************************************************)
EnqueueClocks == {TimeOfDay(BEDTIME_START, 0, 0), TimeOfDay(BEDTIME_END, 0, 0)}

InitEnqueue ==
    \E dynamic \in BOOLEAN, configured \in BOOLEAN :
        InitWith([DefaultConfig EXCEPT !.dynamicScheduling = dynamic,
                                       !.schedulingConfigured = configured], "h23",
                 [entities |-> {SpaceMountain}, statuses |-> {"OPERATING", "DOWN"},
                  maxObs |-> MaxObs, tokens |-> {}, clocks |-> EnqueueClocks])

NextEnqueue ==
    \/ GetCheck
    \/ PostCheck
    \/ InitializeStatusCache
    \/ FetchParkLiveData
    \/ ObserveNext
    \/ EndOfPark
    \/ Notify
    \/ SendPushNotification
    \/ GetCheckResponds
    \/ PostCheckSchedules
    \/ CreateTask
    \/ PostCheckResponds
    \/ Return

SpecEnqueue == InitEnqueue /\ [][NextEnqueue]_vars

(***************************************************************************)
(* GET /check requests served at once (index.js:674-700): each await of    *)
(* checkStatusChanges, initializeStatusCache and saveStatus is a step of   *)
(* its own, and the requests take their steps in any order.  The records   *)
(* carry updatedAt (index.js:98), the instant saveStatus built them.       *)
(***************************************************************************)
MaxWallClock == 3

\* saveStatus's data (index.js:95-99)
StampedRecord(status, rideName, at) ==
    [status |-> status, rideName |-> rideName, updatedAt |-> at]

\* The cache entry is set only when the write has been acknowledged.
CacheAfterSet_deferred(cache, rideId, data) == cache

\* statusCache.set(rideId, data) in saveStatus (index.js:100), before its await.
CacheAfterSet(cache, rideId, data) == (rideId :> data) @@ cache

\* The for-loop over config.parkIds moves on (index.js:446, 498).
AfterPark(c) ==
    IF c.parkIdx < Len(config.parkIds)
    THEN [c EXCEPT !.pc = "fetch", !.parkIdx = @ + 1]
    ELSE [c EXCEPT !.pc = "notify"]

\* After initializeStatusCache: the parkIds guard (index.js:434-437).
AfterWarm(c) ==
    IF Len(config.parkIds) = 0
    THEN [c EXCEPT !.pc = "checked"]
    ELSE [c EXCEPT !.pc = "fetch", !.parkIdx = 1]

\* GET /check calls checkStatusChanges, which calls initializeStatusCache
\* (index.js:674-679, 432, 62-67): it returns at once when the cache is
\* marked initialized, and issues the bulk read otherwise.
ConcurrentGetCheck ==
    \E i \in Invocations :
        /\ inv[i].pc = "idle"
        /\ inv' = [inv EXCEPT ![i] = IF statusCacheInitialized
                                     THEN AfterWarm(InvocationIdle)
                                     ELSE [InvocationIdle EXCEPT !.pc = "warming"]]
        /\ UNCHANGED <<envVars, queueVars, directoryVars, fanoutVars, wallClock, feed, cacheVars, storeVars, ctlVars,
                       cycleVars, pushVars, schedVars>>

\* Firestore answers statusCollection.get() (index.js:67) with the documents
\* it holds at that moment, or with an error.
WarmReadAnswered ==
    \E i \in Invocations, readOk \in BOOLEAN :
        /\ inv[i].pc = "warming"
        /\ inv' = [inv EXCEPT ![i] = [@ EXCEPT !.pc = "warmed", !.readOk = readOk,
                                               !.snapshot = IF readOk THEN store
                                                            ELSE EmptyMap]]
        /\ warmLog' = Append(warmLog, IF readOk THEN "ok" ELSE "failed")
        /\ UNCHANGED <<envVars, queueVars, directoryVars, fanoutVars, wallClock, feed, statusCache,
                       statusCacheInitialized, storeVars, ctlVars, cycleVars, pushVars,
                       schedVars>>

\* initializeStatusCache resumes (index.js:68-77): every document of the
\* snapshot is set into the cache, and the cache is marked initialized.
WarmResumes ==
    \E i \in Invocations :
        /\ inv[i].pc = "warmed"
        /\ statusCache' = IF inv[i].readOk
                          THEN inv[i].snapshot @@ statusCache
                          ELSE statusCache
        /\ statusCacheInitialized' =
              (statusCacheInitialized \/ InitializedAfterWarm(inv[i].readOk))
        /\ inv' = [inv EXCEPT ![i] = AfterWarm([@ EXCEPT !.snapshot = EmptyMap])]
        /\ UNCHANGED <<envVars, queueVars, directoryVars, fanoutVars, wallClock, feed, warmLog, storeVars, ctlVars,
                       cycleVars, pushVars, schedVars>>

\* fetchParkLiveData answers and the liveData guard (index.js:448-453)
ConcurrentFetch ==
    \E i \in Invocations, outcome \in {"ok", "error", "malformed"} :
        /\ inv[i].pc = "fetch"
        /\ inv' = [inv EXCEPT ![i] = IF outcome = "ok"
                                     THEN [@ EXCEPT !.pc = "attractions"]
                                     ELSE AfterPark(@)]
        /\ UNCHANGED <<envVars, queueVars, directoryVars, fanoutVars, wallClock, feed, cacheVars, storeVars, ctlVars,
                       cycleVars, pushVars, schedVars>>

\* One entry of the park's liveData up to the await in saveStatus
\* (index.js:455-494, 90-104): the filters, the diff against the cache, the
\* cache entry set, and the write issued if the status changed.
ConcurrentObserve ==
    \E i \in Invocations, entity \in scope.entities, status \in scope.statuses :
        LET c == inv[i]
            rideId == entity.id
            currentStatus == StatusOrUnknown(status)
            prev == getPreviousStatus(rideId)
            data == StampedRecord(currentStatus, entity.name, wallClock + 1)
            seen == [c EXCEPT !.obsCount = @ + 1]
            counted == [seen EXCEPT
                          !.totalChecked = @ + 1,
                          !.ridesDown = IF isDownStatus(currentStatus) THEN @ + 1 ELSE @,
                          !.statusChanges =
                              IF ChangeDetected(prev, currentStatus)
                              THEN Append(@, [rideId |-> rideId, rideName |-> entity.name,
                                              oldStatus |-> prev,
                                              newStatus |-> currentStatus])
                              ELSE @]
        IN  /\ c.pc = "attractions"
            /\ c.obsCount < scope.maxObs
            /\ wallClock < MaxWallClock
            /\ IF entity.entityType # "ATTRACTION" \/ ~shouldMonitorRide(entity.name)
               THEN /\ inv' = [inv EXCEPT ![i] = seen]
                    /\ UNCHANGED <<wallClock, statusCache>>
               ELSE /\ wallClock' = wallClock + 1
                    /\ statusCache' = CacheAfterSet(statusCache, rideId, data)
                    /\ inv' = [inv EXCEPT ![i] =
                                  IF hasChanged(rideId, currentStatus)
                                  THEN [counted EXCEPT
                                          !.pc = "saving",
                                          !.pending = [rideId |-> rideId, data |-> data]]
                                  ELSE counted]
            /\ UNCHANGED <<envVars, queueVars, directoryVars, fanoutVars, feed, statusCacheInitialized,
                           warmLog, storeVars, ctlVars, cycleVars, pushVars, schedVars>>

\* Firestore applies statusCollection.doc(rideId).set(data) (index.js:104) or
\* rejects it; a rejection throws into the park's catch (index.js:495-497).
StatusWriteApplied ==
    \E i \in Invocations, writeOk \in BOOLEAN :
        LET c == inv[i]
        IN  /\ c.pc = "saving"
            /\ IF writeOk
               THEN /\ store' = (c.pending.rideId :> c.pending.data) @@ store
                    /\ inv' = [inv EXCEPT ![i] = [c EXCEPT !.pc = "attractions",
                                                           !.pending = None,
                                                           !.firestoreWrites = @ + 1]]
               ELSE /\ inv' = [inv EXCEPT ![i] = AfterPark([c EXCEPT !.pending = None])]
                    /\ UNCHANGED store
            /\ UNCHANGED <<envVars, queueVars, directoryVars, fanoutVars, wallClock, feed, cacheVars, devices,
                           deviceCache, ctlVars, cycleVars, pushVars, schedVars>>

\* The park's liveData is exhausted.
ConcurrentEndOfPark ==
    \E i \in Invocations :
        /\ inv[i].pc = "attractions"
        /\ inv' = [inv EXCEPT ![i] = AfterPark(@)]
        /\ UNCHANGED <<envVars, queueVars, directoryVars, fanoutVars, wallClock, feed, cacheVars, storeVars, ctlVars,
                       cycleVars, pushVars, schedVars>>

\* The notification block (index.js:510-536) with no device registered: each
\* sendPushNotification call finds the device cache empty, queries the
\* directory (index.js:133-153) and returns {sent: 0, failed: 0}, or throws
\* when the query fails.
ConcurrentNotify ==
    \E i \in Invocations, readOk \in BOOLEAN :
        LET c == inv[i]
        IN  /\ c.pc = "notify"
            /\ ActiveDevices = <<>>
            /\ IF c.dispatched < Len(NotificationsFor(c.statusChanges))
               THEN IF readOk
                    THEN /\ deviceCache' = [tokens |-> ActiveDevices, ageMs |-> 0]
                         /\ inv' = [inv EXCEPT ![i] =
                                       [c EXCEPT !.dispatched = @ + 1,
                                                 !.notificationResults =
                                                     [sent |-> 0, failed |-> 0]]]
                    ELSE /\ inv' = [inv EXCEPT ![i] = [c EXCEPT !.pc = "failed"]]
                         /\ UNCHANGED deviceCache
               ELSE /\ readOk
                    /\ inv' = [inv EXCEPT ![i] = [c EXCEPT !.pc = "checked"]]
                    /\ UNCHANGED deviceCache
            /\ UNCHANGED <<envVars, queueVars, directoryVars, fanoutVars, wallClock, feed, cacheVars, store, devices,
                           ctlVars, cycleVars, pushVars, schedVars>>

\* GET /check answers (index.js:679-699).
ConcurrentGetCheckResponds ==
    \E i \in Invocations :
        LET c == inv[i]
        IN  /\ c.pc \in {"checked", "failed"}
            /\ inv' = [inv EXCEPT ![i] =
                  [c EXCEPT
                     !.pc = "done",
                     !.response =
                        IF c.pc = "checked"
                        THEN [status |-> 200, success |-> TRUE,
                              result |-> [checked |-> c.totalChecked,
                                          changes |-> Len(c.statusChanges),
                                          ridesDown |-> c.ridesDown,
                                          firestoreWrites |-> c.firestoreWrites,
                                          cacheSize |-> Cardinality(DOMAIN statusCache),
                                          notifications |-> c.notificationResults],
                              nextCheckSec |-> config.checkIntervalSec]
                        ELSE [status |-> 500, success |-> FALSE]]]
            /\ UNCHANGED <<envVars, queueVars, directoryVars, fanoutVars, wallClock, feed, cacheVars, storeVars, ctlVars,
                           cycleVars, pushVars, schedVars>>

ConcurrentReturn ==
    \E i \in Invocations :
        /\ inv[i].pc = "done"
        /\ inv' = [inv EXCEPT ![i] = InvocationIdle]
        /\ UNCHANGED <<envVars, queueVars, directoryVars, fanoutVars, wallClock, feed, cacheVars, storeVars, ctlVars,
                       cycleVars, pushVars, schedVars>>

InitOverlap ==
    InitWith(DefaultConfig, "h23",
             [entities |-> {SpaceMountain}, statuses |-> {"OPERATING", "DOWN"},
              maxObs |-> MaxObs, tokens |-> {}, clocks |-> {}])

NextOverlap ==
    \/ ConcurrentGetCheck
    \/ WarmReadAnswered
    \/ WarmResumes
    \/ ConcurrentFetch
    \/ ConcurrentObserve
    \/ StatusWriteApplied
    \/ ConcurrentEndOfPark
    \/ ConcurrentNotify
    \/ ConcurrentGetCheckResponds
    \/ ConcurrentReturn
    \/ Restart

SpecOverlap == InitOverlap /\ [][NextOverlap]_vars

(***************************************************************************)
(* GET /check requests of the alert-mode variant served at once            *)
(* (part_000:576-609).  Its checkStatusChanges keeps no cache: for each    *)
(* attraction it awaits getPreviousStatus, the read of the stored          *)
(* document, and then saveStatus, the write of the fetched status          *)
(* (part_000:383-413, 80-94).  The feed changes the status it reports for  *)
(* a ride at any moment, at most MaxFeedChanges times per ride.            *)
(***************************************************************************)
MaxFeedChanges == 2

RaceLiveData == <<SpaceMountain, TeaCups>>

OtherStatus(status) == IF status = "OPERATING" THEN "DOWN" ELSE "OPERATING"

\* A ride opens or closes.
FeedChanges ==
    \E id \in DOMAIN feed :
        /\ feed[id].changes < MaxFeedChanges
        /\ feed' = [feed EXCEPT ![id] = [status |-> OtherStatus(@.status),
                                         changes |-> @.changes + 1]]
        /\ UNCHANGED <<envVars, queueVars, directoryVars, fanoutVars, inv, wallClock, cacheVars, storeVars,
                       ctlVars, cycleVars, pushVars, schedVars>>

\* previousData?.status of the document the read returned (part_000:398-399)
StoredStatus(rideId) ==
    IF rideId \in DOMAIN store THEN store[rideId].status ELSE None

\* The diff of part_000:401-410 treats every stored status as unchanged.
EventsAfterDiff_never(changes, ride, prev, currentStatus) == changes

\* part_000:401-410: the change is pushed to statusChanges.
EventsAfterDiff(changes, ride, prev, currentStatus) ==
    IF ChangeDetected(prev, currentStatus)
    THEN Append(changes, [rideId |-> ride.id, rideName |-> ride.name,
                          oldStatus |-> prev, newStatus |-> currentStatus])
    ELSE changes

\* GET /check calls checkStatusChanges (part_000:576-581, 355-366).
ConcurrentCheckAlert ==
    \E i \in Invocations :
        /\ inv[i].pc = "idle"
        /\ inv' = [inv EXCEPT ![i] = AfterWarm(InvocationIdle)]
        /\ UNCHANGED <<envVars, queueVars, directoryVars, fanoutVars, wallClock, feed, cacheVars, storeVars,
                       ctlVars, cycleVars, pushVars, schedVars>>

\* fetchParkLiveData answers with what the feed reports at that moment, or
\* fails into the park's catch (part_000:370-381, 414-416).
ConcurrentFetchAlert ==
    \E i \in Invocations, fetchOk \in BOOLEAN :
        /\ inv[i].pc = "fetch"
        /\ inv' = [inv EXCEPT ![i] =
                      IF fetchOk
                      THEN [@ EXCEPT !.pc = "attractions", !.obsCount = 0,
                                     !.snapshot = [id \in DOMAIN feed |-> feed[id].status]]
                      ELSE AfterPark(@)]
        /\ UNCHANGED <<envVars, queueVars, directoryVars, fanoutVars, wallClock, feed, cacheVars, storeVars,
                       ctlVars, cycleVars, pushVars, schedVars>>

\* The next attraction of the fetched liveData up to the await in saveStatus
\* (part_000:383-412, 87-88): Firestore answers getPreviousStatus with the
\* document it holds at that moment, the diff is taken against it and the
\* write of the fetched status is issued.  A rejected read throws into the
\* park's catch.
PreviousStatusAnswered ==
    \E i \in Invocations, readOk \in BOOLEAN :
        LET c == inv[i]
            ride == scope.liveData[c.obsCount + 1]
            currentStatus == StatusOrUnknown(c.snapshot[ride.id])
            prev == StoredStatus(ride.id)
            counted == [c EXCEPT
                          !.obsCount = @ + 1,
                          !.totalChecked = @ + 1,
                          !.ridesDown = IF isDownStatus(currentStatus) THEN @ + 1 ELSE @]
        IN  /\ c.pc = "attractions"
            /\ c.obsCount < Len(scope.liveData)
            /\ inv' = [inv EXCEPT ![i] =
                  IF ride.entityType # "ATTRACTION" \/ ~shouldMonitorRide(ride.name)
                  THEN [c EXCEPT !.obsCount = @ + 1]
                  ELSE IF ~readOk
                       THEN AfterPark(counted)
                       ELSE [counted EXCEPT
                               !.pc = "saving",
                               !.statusChanges =
                                   EventsAfterDiff(@, ride, prev, currentStatus),
                               !.pending =
                                   [rideId |-> ride.id,
                                    data |-> StatusRecord(currentStatus, ride.name)]]]
            /\ UNCHANGED <<envVars, queueVars, directoryVars, fanoutVars, wallClock, feed, cacheVars, storeVars,
                           ctlVars, cycleVars, pushVars, schedVars>>

\* Firestore applies the set of saveStatus (part_000:88) or rejects it; a
\* rejection throws into the park's catch.
StatusWriteAppliedAlert ==
    \E i \in Invocations, writeOk \in BOOLEAN :
        LET c == inv[i]
        IN  /\ c.pc = "saving"
            /\ IF writeOk
               THEN /\ store' = (c.pending.rideId :> c.pending.data) @@ store
                    /\ inv' = [inv EXCEPT ![i] = [c EXCEPT !.pc = "attractions",
                                                           !.pending = None]]
               ELSE /\ inv' = [inv EXCEPT ![i] = AfterPark([c EXCEPT !.pending = None])]
                    /\ UNCHANGED store
            /\ UNCHANGED <<envVars, queueVars, directoryVars, fanoutVars, wallClock, feed, cacheVars, devices,
                           deviceCache, ctlVars, cycleVars, pushVars, schedVars>>

\* The liveData of the park is exhausted (part_000:383, 413).
ConcurrentEndOfParkAlert ==
    \E i \in Invocations :
        /\ inv[i].pc = "attractions"
        /\ inv[i].obsCount = Len(scope.liveData)
        /\ inv' = [inv EXCEPT ![i] = AfterPark(@)]
        /\ UNCHANGED <<envVars, queueVars, directoryVars, fanoutVars, wallClock, feed, cacheVars, storeVars,
                       ctlVars, cycleVars, pushVars, schedVars>>

\* The notification block (part_000:419-447) with no recipient number and no
\* device registered: sendSmsNotification returns {sent: 0, failed: 0}
\* (part_000:224-227), sendPushNotification queries the devices
\* (part_000:155-159) and returns the same, or throws when the query fails.
ConcurrentNotifyAlert ==
    \E i \in Invocations, readOk \in BOOLEAN :
        LET c == inv[i]
        IN  /\ c.pc = "notify"
            /\ ActiveDevices = <<>> /\ config.recipientNumbers = <<>>
            /\ inv' = [inv EXCEPT ![i] =
                  IF c.dispatched < Len(NotificationsForAlert(c.statusChanges))
                  THEN IF readOk
                       THEN [c EXCEPT !.dispatched = @ + 1,
                                      !.notificationResults = [sent |-> 0, failed |-> 0]]
                       ELSE [c EXCEPT !.pc = "failed"]
                  ELSE [c EXCEPT !.pc = "checked"]]
            /\ c.dispatched >= Len(NotificationsForAlert(c.statusChanges)) => readOk
            /\ UNCHANGED <<envVars, queueVars, directoryVars, fanoutVars, wallClock, feed, cacheVars, storeVars,
                           ctlVars, cycleVars, pushVars, schedVars>>

\* GET /check answers (part_000:582-608).
ConcurrentCheckAlertResponds ==
    \E i \in Invocations :
        LET c == inv[i]
        IN  /\ c.pc \in {"checked", "failed"}
            /\ inv' = [inv EXCEPT ![i] =
                  [c EXCEPT
                     !.pc = "done",
                     !.response =
                        IF c.pc = "checked"
                        THEN [status |-> 200, success |-> TRUE,
                              ridesChecked |-> c.totalChecked,
                              statusChanges |-> Len(c.statusChanges),
                              ridesDown |-> c.ridesDown,
                              nextCheckSec |-> IF c.ridesDown > 0
                                               THEN config.alertIntervalSec
                                               ELSE config.normalIntervalSec]
                        ELSE [status |-> 500, success |-> FALSE]]]
            /\ UNCHANGED <<envVars, queueVars, directoryVars, fanoutVars, wallClock, feed, cacheVars, storeVars,
                           ctlVars, cycleVars, pushVars, schedVars>>

\* Two rides, both stored as operating by an earlier cycle and reported as
\* operating by the feed, no device and no recipient number.
InitRace ==
    /\ config = DefaultConfig
    /\ hourCycle = "h23"
    /\ firebaseInitialized = TRUE
    /\ scope = [entities |-> {SpaceMountain, TeaCups}, statuses |-> {"OPERATING", "DOWN"},
                maxObs |-> Len(RaceLiveData), tokens |-> {}, clocks |-> {},
                liveData |-> RaceLiveData]
    /\ store = [id \in {RaceLiveData[k].id : k \in DOMAIN RaceLiveData} |->
                   StatusRecord("OPERATING",
                                RaceLiveData[CHOOSE k \in DOMAIN RaceLiveData :
                                                 RaceLiveData[k].id = id].name)]
    /\ devices = EmptyMap
    /\ InitProcess

NextRace ==
    \/ FeedChanges
    \/ ConcurrentCheckAlert
    \/ ConcurrentFetchAlert
    \/ PreviousStatusAnswered
    \/ StatusWriteAppliedAlert
    \/ ConcurrentEndOfParkAlert
    \/ ConcurrentNotifyAlert
    \/ ConcurrentCheckAlertResponds
    \/ ConcurrentReturn

SpecRace == InitRace /\ [][NextRace]_vars

(***************************************************************************)
(* The device endpoints served at once: one GET /devices and one           *)
(* registration or unregistration at a time, over two registered tokens.   *)
(***************************************************************************)
InitDirectory ==
    InitWith(DefaultConfig, "h23",
             [entities |-> {}, statuses |-> {}, maxObs |-> 0,
              tokens |-> {"t1", "t2"}, clocks |-> {}])

NextDirectory ==
    \/ GetDevices
    \/ DevicesQueryAnswered
    \/ GetDevicesResumes
    \/ GetDevicesReturns
    \/ PostDevices
    \/ DeleteDevices
    \/ DeviceWriteApplied
    \/ MutationResumes
    \/ MutationReturns
    \/ Elapse

SpecDirectory == InitDirectory /\ [][NextDirectory]_vars

(***************************************************************************)
(* Registrations and unregistrations of one device that was registered     *)
(* from an Android phone, with and without platform and deviceName in the  *)
(* request.                                                                *)
(***************************************************************************)
AndroidDevice ==
    [active |-> TRUE, invalid |-> FALSE, platform |-> "android", deviceName |-> "Pixel"]

RegisterMetadata ==
    [platform : {Absent, "android"}, deviceName : {Absent, "Pixel", "Tablet"}]

InitRegister ==
    /\ config = DefaultConfig
    /\ hourCycle = "h23"
    /\ firebaseInitialized = TRUE
    /\ scope = [entities |-> {}, statuses |-> {}, maxObs |-> 0, tokens |-> {"t1"},
                clocks |-> {}, metadata |-> RegisterMetadata]
    /\ store = EmptyMap
    /\ devices = [t \in {"t1"} |-> AndroidDevice]
    /\ InitProcess

NextRegister ==
    \/ GetDevices
    \/ DevicesQueryAnswered
    \/ GetDevicesResumes
    \/ GetDevicesReturns
    \/ PostDevices
    \/ DeleteDevices
    \/ DeviceWriteApplied
    \/ MutationResumes
    \/ MutationReturns

SpecRegister == InitRegister /\ [][NextRegister]_vars

(***************************************************************************)
(* The life of device records: registrations and unregistrations of two    *)
(* tokens, one of them registered at the start, while test pushes are      *)
(* sent and invalid tokens are marked.                                     *)
(***************************************************************************)
LifecycleMetadata == {NoMetadata, [platform |-> "android", deviceName |-> "Pixel"]}

InitLifecycle ==
    /\ config = DefaultConfig
    /\ hourCycle = "h23"
    /\ firebaseInitialized = TRUE
    /\ scope = [entities |-> {}, statuses |-> {}, maxObs |-> 0, tokens |-> {"t1", "t2"},
                clocks |-> {}, metadata |-> LifecycleMetadata]
    /\ store = EmptyMap
    /\ devices = [t \in {"t1"} |-> AndroidDevice]
    /\ InitProcess

NextLifecycle ==
    \/ PostDevices
    \/ DeleteDevices
    \/ DeviceWriteApplied
    \/ MutationResumes
    \/ MutationReturns
    \/ TestPush
    \/ SendPushNotification
    \/ SendToDeviceNext
    \/ TestPushFails
    \/ Return

SpecLifecycle == InitLifecycle /\ [][NextLifecycle]_vars

(***************************************************************************)
(* SpecQuiet: the quiet hours.  Every clock reading lies inside the window *)
(* of 1:00 to 7:00 while POST /check and GET /check requests are served,   *)
(* with dynamic scheduling on, one ride and one registered device.         *)
(***************************************************************************)
QuietClocks == {TimeOfDay(BEDTIME_START, 0, 0), TimeOfDay(BEDTIME_END, 0, 0) - 2}

InitQuiet ==
    InitWith([DefaultConfig EXCEPT !.dynamicScheduling = TRUE], "h23",
             [entities |-> {SpaceMountain}, statuses |-> {"OPERATING", "DOWN"},
              maxObs |-> MaxObs, tokens |-> {"t1"}, clocks |-> QuietClocks])

NextQuiet ==
    \/ GetCheck
    \/ PostCheck
    \/ InitializeStatusCache
    \/ FetchParkLiveData
    \/ ObserveNext
    \/ EndOfPark
    \/ Notify
    \/ SendPushNotification
    \/ SendToDeviceNext
    \/ GetCheckResponds
    \/ CreateTask
    \/ PostCheckResponds
    \/ Return

SpecQuiet == InitQuiet /\ [][NextQuiet]_vars

(***************************************************************************)
(* GET /check and POST /check cycles over two parks whose fetches succeed   *)
(* or fail independently, at midday, without dynamic scheduling.           *)
(***************************************************************************)
TwoParks == <<"park1", "park2">>

ParksClocks == {TimeOfDay(12, 0, 0)}

InitParks ==
    InitWith([DefaultConfig EXCEPT !.parkIds = TwoParks], "h23",
             [entities |-> {SpaceMountain, TeaCups},
              statuses |-> {"OPERATING", "DOWN"},
              maxObs |-> MaxObs,
              tokens |-> {},
              clocks |-> ParksClocks])

NextParks ==
    \/ GetCheck
    \/ PostCheck
    \/ InitializeStatusCache
    \/ FetchParkLiveData
    \/ ObserveNext
    \/ EndOfPark
    \/ Notify
    \/ SendPushNotification
    \/ GetCheckResponds
    \/ PostCheckSchedules
    \/ PostCheckResponds
    \/ Return

SpecParks == InitParks /\ [][NextParks]_vars

\* fetchParkLiveData is called for the park at parkIdx in this step.
FetchStep == pc = "fetch" /\ Len(fetchLog') = Len(fetchLog) + 1

\* The park loop of the cycle is over.
ParksDone ==
    /\ handler \in {"GET /check", "POST /check"}
    /\ pc \in {"notify", "push", "checked", "scheduled", "done"}
    /\ ~caught

\* C19: a park whose fetch fails, answers non-2xx or returns no liveData
\* array is skipped: nothing is checked, diffed or saved for it, the loop moves
\* on to the next configured park (or to the notification block after the
\* last one), the cycle does not throw, and by the end of the loop every
\* configured park has been fetched.
C19_FailedParkSkipped ==
    [][/\ (FetchStep /\ fetchLog'[Len(fetchLog')] # "ok") =>
             /\ UNCHANGED <<totalChecked, totalChanges, statusChanges, statusCache,
                            store, writes, caught>>
             /\ IF parkIdx < Len(config.parkIds)
                THEN pc' = "fetch" /\ parkIdx' = parkIdx + 1
                ELSE pc' = "notify" /\ parkIdx' = parkIdx
       /\ ParksDone' => Len(fetchLog') = Len(config.parkIds)
       /\ pc' = "failed" => pc = "push"]_vars

\* The first park's fetch failed, the second park was still fetched and
\* diffed, and the cycle answers 200.
C19_Witness ==
    /\ handler = "GET /check" /\ pc = "done"
    /\ Len(fetchLog) = 2 /\ fetchLog[1] \in {"error", "malformed"} /\ fetchLog[2] = "ok"
    /\ totalChecked > 0
    /\ response.status = 200

\* The fetch of every configured park of the cycle failed.
EveryFetchFailed ==
    /\ Len(fetchLog) = Len(config.parkIds)
    /\ \A i \in 1 .. Len(fetchLog) : fetchLog[i] = "error"

\* C20 as stated: a cycle in which the fetch fails for every configured park
\* is reported to its caller as a failure, not as success.
C20_AsStated ==
    (handler \in {"GET /check", "POST /check"} /\ pc = "done" /\ EveryFetchFailed) =>
        (response.status # 200 /\ response.success = FALSE)

\* Every fetch failed and POST /check answers 200 with success true and a
\* result of zero rides checked.
C20_AllFailedReportedSuccess ==
    /\ handler = "POST /check" /\ pc = "done"
    /\ EveryFetchFailed
    /\ response.status = 200 /\ response.success = TRUE
    /\ response.result.checked = 0

(***************************************************************************)
(* Properties of the device cache under mutations, over SpecDirectory.     *)
(***************************************************************************)

\* A getDeviceTokens call starts in this step.
GetDeviceTokensStarts == reader.pc = "idle" /\ reader'.pc # "idle"

\* C14 as stated: a getDeviceTokens call that starts after a registerDevice,
\* unregisterDevice or markTokenInvalid has completed, no other call having
\* started since, queries the durable store, however little time has passed
\* since the cache was loaded.
C14_AsStated ==
    [][(GetDeviceTokensStarts /\ dirHist.stale) => reader'.read]_vars

\* A call that started after a completed mutation was answered from the
\* cache, without a query.
C14_ServedWithoutRead ==
    /\ reader.pc = "done"
    /\ reader.owed /\ ~reader.read
    /\ reader.response.status = 200

InList(token, tokens) == \E i \in 1 .. Len(tokens) : tokens[i] = token

\* A GET /devices was answered with a list, no mutation having been in
\* flight since its getDeviceTokens call started.
AnsweredUndisturbed ==
    reader.pc = "done" /\ reader.quiet /\ reader.response.status = 200

\* C15 as stated: a getDeviceTokens call that starts after the mutations of
\* token t have completed reflects the last of them: its list contains t
\* after registerDevice and omits t after unregisterDevice, also when a
\* refresh of the cache was awaiting its query while the mutation ran.
C15_AsStated ==
    AnsweredUndisturbed =>
        \A t \in DOMAIN dirHist.lastDone :
            InList(t, reader.response.devices) <=> (dirHist.lastDone[t] = "register")

\* The list of a later call still holds a token whose unregistration had
\* completed before the call started.
C15_StaleListServed ==
    /\ AnsweredUndisturbed
    /\ ~reader.read
    /\ \E t \in DOMAIN dirHist.lastDone :
          /\ dirHist.lastDone[t] = "unregister"
          /\ ~DeviceIsActive(t)
          /\ InList(t, reader.response.devices)

(***************************************************************************)
(* Properties of overlapping check invocations, over SpecOverlap.          *)
(***************************************************************************)

\* C16 as stated: the bulk read of initializeStatusCache executes exactly
\* once per process lifetime, whatever the number of check invocations and
\* their interleaving, two invocations that both start before the first
\* warm-up has finished included.
C16_AsStated ==
    /\ Len(warmLog) <= 1
    /\ statusCacheInitialized => Len(warmLog) = 1

\* Two invocations each issued the bulk read in one process lifetime.
C16_WarmedTwice ==
    /\ Len(warmLog) = 2
    /\ statusCacheInitialized
    /\ \A i \in Invocations : inv[i].pc \notin {"idle", "warming", "warmed"}

Recorded == DOMAIN statusCache \cap DOMAIN store

\* C18 as stated: for every id with both a Status Cache entry and a durable
\* record, the cache entry is never older than the durable record, across
\* overlapping check invocations and overlapping warm-ups too.
C18_AsStated ==
    \A id \in Recorded : statusCache[id].updatedAt >= store[id].updatedAt

\* With no request in flight, the cache holds an older record and another
\* status than the durable store.
C18_CacheOlderThanStore ==
    /\ \A i \in Invocations : inv[i].pc = "idle"
    /\ \E id \in Recorded :
          /\ statusCache[id].updatedAt < store[id].updatedAt
          /\ statusCache[id].status # store[id].status

(***************************************************************************)
(* Properties of the enqueue of the next check, over SpecPost.             *)
(***************************************************************************)

\* tasksClient.createTask is called in this step.
CreateTaskStep == pc = "createTask" /\ pc' # "createTask"

\* createTask threw: scheduleNextCheck returned scheduled false with the
\* error's message as reason.
EnqueueFailed(result) ==
    result.called /\ ~result.scheduled /\ result.reason.kind = "error.message"

\* C21: when createTask throws, scheduleNextCheck returns to its caller
\* without throwing and without touching what the check did, and POST /check
\* answers 500 exactly when the check itself threw and 200 with the check's
\* result otherwise, whatever the outcome of the enqueue.
C21_EnqueueFailureSwallowed ==
    [][/\ (CreateTaskStep /\ EnqueueFailed(scheduleResult')) =>
             /\ pc' = "scheduled"
             /\ UNCHANGED <<handler, caught, response, cycleVars, pushVars, cacheVars,
                            storeVars>>
       /\ (handler = "POST /check" /\ pc = "scheduled" /\ pc' = "done") =>
             /\ response'.status = IF caught THEN 500 ELSE 200
             /\ response'.success = ~caught
             /\ (~caught /\ ~isBedtime(clockCheck)) => response'.result = CheckResult]_vars

\* A check that succeeded answers 200 with its result although the enqueue
\* of the next check failed.
C21_Witness ==
    /\ handler = "POST /check" /\ pc = "done"
    /\ EnqueueFailed(scheduleResult)
    /\ response.status = 200 /\ response.success
    /\ response.bedtime = FALSE
    /\ response.result.checked > 0

(***************************************************************************)
(* Properties of which requests enqueue, over SpecEnqueue.                 *)
(***************************************************************************)

\* Dynamic scheduling is enabled and projectId and serviceUrl are set.
QueueUsable == config.dynamicScheduling /\ config.schedulingConfigured

\* C22: GET /check never calls createTask.  POST /check has called
\* createTask exactly once by the time it answers when dynamic scheduling is
\* enabled and the queue is configured, whether the check succeeded, was
\* skipped for bedtime or threw, and never calls it otherwise.
C22_OneTaskPerPostCheck ==
    /\ handler = "GET /check" => (taskLog = <<>> /\ ~scheduleResult.called)
    /\ Len(taskLog) <= 1
    /\ ~QueueUsable => taskLog = <<>>
    /\ (handler = "POST /check" /\ pc = "done") =>
          /\ scheduleResult.called
          /\ Len(taskLog) = IF QueueUsable THEN 1 ELSE 0
          /\ scheduleResult.scheduled <=> (taskLog # <<>> /\ taskLog[1].created)

\* A POST /check whose check threw has answered 500 with one task
\* enqueued.
C22_Witness ==
    /\ handler = "POST /check" /\ pc = "done"
    /\ caught /\ response.status = 500
    /\ Len(taskLog) = 1 /\ taskLog[1].created

(***************************************************************************)
(* Properties of the cycle's notification result, over SpecBatch.          *)
(***************************************************************************)

\* The sends of the cycle's dispatches that succeeded, and those that failed.
SentInCycle == Cardinality({i \in 1 .. Len(pushLog) : pushLog[i].outcome = "ok"})

FailedInCycle == Cardinality({i \in 1 .. Len(pushLog) : pushLog[i].outcome # "ok"})

\* checkStatusChanges returns after at least one dispatch.
ReturnsAfterDispatch == handler = "GET /check" /\ pc = "checked" /\ dispatched > 0

\* C23 as stated: the notification result a check cycle returns is the
\* aggregate over every dispatch of the cycle: its sent and failed counters
\* are the sums of the per-dispatch counters, also when 2 or 3 individual
\* notifications were dispatched.
C23_AsStated ==
    ReturnsAfterDispatch =>
        /\ notificationResults.sent = SentInCycle
        /\ notificationResults.failed = FailedInCycle

\* Two individual notifications were each sent to the one device, and the
\* cycle returns sent = 1.
C23_LastDispatchOnly ==
    /\ ReturnsAfterDispatch
    /\ dispatched = 2
    /\ SentInCycle = 2 /\ FailedInCycle = 0
    /\ notificationResults = [sent |-> 1, failed |-> 0]

(***************************************************************************)
(* Properties of registration as an upsert, over SpecRegister.             *)
(***************************************************************************)

\* Firestore applies the write of a registerDevice call for a token that has
\* a record.
RegistrationApplied ==
    /\ mutator.pc = "writing" /\ mutator.op = "register"
    /\ mutator'.pc = "invalidate"
    /\ mutator.token \in DOMAIN devices

\* C24 as stated: registerDevice is an upsert with field-merge semantics:
\* a field (platform, deviceName) that is absent or undefined in the request
\* keeps the value the existing record holds.
C24_AsStated ==
    [][RegistrationApplied =>
          \A f \in {"platform", "deviceName"} :
              (mutator.metadata[f] = Absent /\ f \in DOMAIN devices[mutator.token]) =>
                  /\ f \in DOMAIN devices'[mutator.token]
                  /\ devices'[mutator.token][f] = devices[mutator.token][f]]_vars

\* A registration without platform has been applied and the record's
\* platform is "ios": no request of this specification carries "ios", the
\* record held "android".
C24_PlatformReset ==
    /\ mutator.pc = "invalidate" /\ mutator.op = "register"
    /\ mutator.metadata.platform = Absent
    /\ devices[mutator.token].platform = "ios"
    /\ devices[mutator.token].deviceName # Absent

(***************************************************************************)
(* Properties of the life of device records, over SpecLifecycle.           *)
(***************************************************************************)

\* The record of token keeps every field outside the given ones.
OnlyFieldsChange(token, fields) ==
    /\ DOMAIN devices[token] \subseteq DOMAIN devices'[token]
    /\ \A f \in DOMAIN devices[token] \ fields : devices'[token][f] = devices[token][f]

\* Firestore applies the write of the mutation in flight.
MutationApplied(op) ==
    mutator.pc = "writing" /\ mutator.op = op /\ mutator'.pc = "invalidate"

\* markTokenInvalid's update of the device just sent to was acknowledged.
MarkedInvalid ==
    /\ pc = "send" /\ Len(pushLog') = Len(pushLog) + 1
    /\ pushLog'[Len(pushLog')].marked = "acknowledged"

\* C25: device records are never deleted: no step of a registration, an
\* unregistration, a mark-invalid or a push dispatch removes a record, a
\* registered token has a record, unregisterDevice changes nothing but
\* active, which it sets to false, and markTokenInvalid nothing but active
\* and invalid, which it sets to false and true.
C25_RecordsNeverDeleted ==
    [][/\ DOMAIN devices \subseteq DOMAIN devices'
       /\ MutationApplied("register") =>
             /\ mutator.token \in DOMAIN devices'
             /\ devices'[mutator.token].active
       /\ MutationApplied("unregister") =>
             /\ OnlyFieldsChange(mutator.token, {"active"})
             /\ DOMAIN devices'[mutator.token] = DOMAIN devices[mutator.token]
             /\ ~devices'[mutator.token].active
       /\ MarkedInvalid =>
             LET token == pushLog'[Len(pushLog')].token
             IN  /\ OnlyFieldsChange(token, {"active", "invalid"})
                 /\ ~devices'[token].active
                 /\ devices'[token].invalid]_vars

\* Both tokens have a record: t1 was marked invalid after a failed push and
\* keeps its platform and device name, t2 was registered and unregistered.
C25_Witness ==
    /\ DOMAIN devices = {"t1", "t2"}
    /\ devices["t1"] = [AndroidDevice EXCEPT !.active = FALSE, !.invalid = TRUE]
    /\ ~devices["t2"].active
    /\ "t2" \in DOMAIN dirHist.lastDone /\ dirHist.lastDone["t2"] = "unregister"

(***************************************************************************)
(* Properties of the SMS fan-out, over SpecSms.                            *)
(***************************************************************************)

\* The recipients whose send ended as given.
SettledAs(s, how) == {i \in DOMAIN s.settled : s.settled[i] = how}

\* sendSmsNotification passes its early returns: the Twilio client exists
\* and SMS is enabled.
SmsOperative == config.twilioConfigured /\ config.enableSms

\* C26: when sendSmsNotification sends (Twilio configured, SMS enabled),
\* messages.create is called once for every configured recipient and never
\* again during the dispatch; a send that settles, failed or not, changes
\* the state of no other recipient's send; and the call returns only when
\* every send has settled, with sent the number of sends that succeeded,
\* failed the number that failed, and sent + failed the number of
\* configured recipients.
C26_EveryRecipientOnce ==
    [][/\ (pc = "sms" /\ sms.pc = "idle" /\ SmsOperative /\ pc' = "sms") =>
             /\ sms'.pc = "sending"
             /\ DOMAIN sms'.attempts = 1 .. Len(config.recipientNumbers)
             /\ \A i \in DOMAIN sms'.attempts : sms'.attempts[i] = 1
       /\ (pc = "sms" /\ sms.pc = "idle" /\ SmsOperative /\ pc' = "push") =>
             /\ Len(config.recipientNumbers) = 0
             /\ smsResult' = [sent |-> 0, failed |-> 0]
       /\ (sms.pc = "sending" /\ sms'.pc = "sending") =>
             /\ sms'.attempts = sms.attempts
             /\ Cardinality({i \in DOMAIN sms.settled : sms'.settled[i] # sms.settled[i]}) <= 1
             /\ \A i \in DOMAIN sms.settled :
                   sms.settled[i] # "pending" => sms'.settled[i] = sms.settled[i]
       /\ (sms.pc = "sending" /\ sms'.pc = "idle") =>
             /\ SettledAs(sms, "pending") = {}
             /\ \A i \in DOMAIN sms.attempts : sms.attempts[i] = 1
             /\ smsResult'.sent = Cardinality(SettledAs(sms, "sent"))
             /\ smsResult'.failed = Cardinality(SettledAs(sms, "failed"))
             /\ smsResult'.sent + smsResult'.failed = Len(config.recipientNumbers)]_vars

\* A dispatch to three recipients returned with two sends delivered and one
\* failed.
C26_Witness ==
    /\ handler = AlertPostCheck /\ pc = "push"
    /\ Len(config.recipientNumbers) = 3
    /\ sms = SmsIdle
    /\ pendingTasks = 0
    /\ smsResult = [sent |-> 2, failed |-> 1]

(***************************************************************************)
(* Properties of the push fan-out, over SpecPush.  While pc = "send" the   *)
(* loop of sendPushNotification awaits the send to devList[devIdx]: the    *)
(* sends before devIdx have completed, those after it are not yet issued.  *)
(***************************************************************************)

\* The devices whose send has been issued.
SendsStarted == IF pc = "send" THEN 1 .. devIdx ELSE {}

\* C27: within one push dispatch every target's send is started before the
\* completion of any send is awaited, and sendPushNotification returns only
\* after all of them have completed.
C27_AsStated ==
    /\ pc = "send" => SendsStarted = DOMAIN devList
    /\ (handler = "POST /test-push" /\ pc = "done" /\ ~caught /\ devList # <<>>) =>
          Len(pushLog) = Len(devList)

\* The send to the first of three devices has completed and the send to the
\* second is awaited, while the send to the third has not been issued.
C27_OneSendAtATime ==
    /\ handler = "POST /test-push" /\ pc = "send"
    /\ Len(devList) = 3 /\ devIdx = 2
    /\ Len(pushLog) = 1 /\ pushLog[1].token = devList[1]
    /\ SendsStarted = {1, 2}

(***************************************************************************)
(* Properties of overlapping checks of the alert-mode variant, over        *)
(* SpecRace.                                                               *)
(***************************************************************************)

\* The StatusChangeEvents invocation i holds for the ride.
EventsOf(i, rideId) ==
    {k \in DOMAIN inv[i].statusChanges : inv[i].statusChanges[k].rideId = rideId}

\* How many events the invocations hold for the ride together.
EventCount(rideId) ==
    Cardinality({<<i, k>> \in Invocations \X (1 .. Len(RaceLiveData)) :
                    k \in EventsOf(i, rideId)})

\* Firestore answers the getPreviousStatus of invocation i for the ride.
ReadAnswered(i, ride) ==
    /\ inv[i].pc = "attractions" /\ inv'[i].pc = "saving"
    /\ inv'[i].pending.rideId = ride.id

\* C28: in the variant that reads the previous status from durable storage
\* nothing orders the reads and writes of two overlapping checks: whatever
\* the other invocation has read, pushed or not yet written, an invocation
\* pushes a StatusChangeEvent for a ride exactly when the document the
\* store holds at the moment of its read has a status different from the
\* one it fetched, with that stored status as oldStatus.  So a single
\* transition is pushed by both invocations when both read before either
\* writes, and a transition only one of them fetched is pushed by neither
\* when that one reads before the other writes.
C28_DiffAgainstStoreAtRead ==
    [][\A i \in Invocations : \A k \in DOMAIN RaceLiveData :
          ReadAnswered(i, RaceLiveData[k]) =>
             LET ride == RaceLiveData[k]
                 fetched == inv[i].snapshot[ride.id]
                 stored == store[ride.id].status
             IN  /\ inv'[i].pending.data.status = fetched
                 /\ \A j \in Invocations \ {i} : inv'[j] = inv[j]
                 /\ inv'[i].statusChanges =
                       IF stored # fetched
                       THEN Append(inv[i].statusChanges,
                                   [rideId |-> ride.id, rideName |-> ride.name,
                                    oldStatus |-> stored, newStatus |-> fetched])
                       ELSE inv[i].statusChanges]_vars

\* Two overlapping checks have answered.  Space Mountain went down once and
\* each check holds an event for it; Tea Cups went down and came back, one
\* check fetched it down and the other operating, and the two hold the one
\* event of its going down: its coming back is in no event, and the store
\* already holds it as operating.
C28_Witness ==
    /\ \A i \in Invocations : inv[i].pc = "done" /\ inv[i].response.status = 200
    /\ feed["A"] = [status |-> "DOWN", changes |-> 1]
    /\ \A i \in Invocations :
          /\ Cardinality(EventsOf(i, "A")) = 1
          /\ \A k \in EventsOf(i, "A") :
                /\ inv[i].statusChanges[k].oldStatus = "OPERATING"
                /\ inv[i].statusChanges[k].newStatus = "DOWN"
    /\ feed["B"] = [status |-> "OPERATING", changes |-> 2]
    /\ {inv[i].snapshot["B"] : i \in Invocations} = {"DOWN", "OPERATING"}
    /\ EventCount("B") = 1
    /\ \A i \in Invocations : \A k \in EventsOf(i, "B") :
          inv[i].statusChanges[k].newStatus = "DOWN"
    /\ store["B"].status = "OPERATING"

(***************************************************************************)
(* Properties of the quiet hours, over SpecQuiet.                          *)
(***************************************************************************)

\* The window of the specification is active at every moment of the run.
WindowActive ==
    /\ config.bedtimeEnabled
    /\ \A t \in scope.clocks : InWindow(t) /\ \A u \in ClockAfter(t) : InWindow(u)

\* A step in which a cycle detects a transition or sends a push for it.
Reports ==
    \/ Len(statusChanges') > Len(statusChanges)
    \/ Len(pushLog') > Len(pushLog)

\* C29: while the quiet window is active, POST /check performs no feed
\* fetch, leaves the Status Cache and the durable status store unchanged
\* and dispatches no notification, and no cycle reports a transition: a
\* transition that occurs during the window is first reported by a cycle
\* that runs after the window has ended.
C29_AsStated ==
    [][WindowActive =>
          /\ handler' = "POST /check" =>
                /\ fetchLog' = <<>>
                /\ UNCHANGED <<statusCache, store>>
                /\ dispatched' = 0 /\ pushLog' = <<>>
          /\ ~Reports]_vars

\* During the window a GET /check has detected that Space Mountain went
\* down and has pushed the notification to the registered device.
C29_ReportedInWindow ==
    /\ WindowActive
    /\ handler = "GET /check"
    /\ Len(statusChanges) = 1
    /\ statusChanges[1].oldStatus = "OPERATING" /\ statusChanges[1].newStatus = "DOWN"
    /\ Len(pushLog) = 1
    /\ pushLog[1].token = "t1" /\ pushLog[1].outcome = "ok"

(***************************************************************************)
(* Properties of the filters of the diff engine, over Spec.                *)
(***************************************************************************)

\* The name contains one of the watched names, compared in lower case.
MatchesWatched(name) ==
    \E k \in DOMAIN config.watchedRides :
        includes(toLowerCase(name), trim(toLowerCase(config.watchedRides[k])))

\* The observation is not of the monitored type, or the watched list is not
\* empty and the name matches none of its entries.
Skipped(o) ==
    \/ o.entityType # "ATTRACTION"
    \/ config.watchedRides # <<>> /\ ~MatchesWatched(o.name)

\* C30: an observation the diff engine skips (entityType other than
\* ATTRACTION, or a name matching no entry of a non-empty watched list)
\* adds no Status Cache entry, issues no durable write, emits no event and
\* is not counted in checked or ridesDown; with an empty watched list every
\* attraction is processed: counted in checked and entered in the cache.
C30_SkippedChangesNothing ==
    [][(pc = "attractions" /\ obsCount' = obsCount + 1) =>
          /\ Skipped(obs') =>
                UNCHANGED <<statusCache, store, writes, statusChanges, totalChecked,
                            totalChanges, ridesDown, firestoreWrites>>
          /\ (obs'.entityType = "ATTRACTION" /\ config.watchedRides = <<>>) =>
                /\ totalChecked' = totalChecked + 1
                /\ obs'.id \in DOMAIN statusCache'
                /\ statusCache'[obs'.id] = ObservedRecord(obs')]_vars

\* With Space Mountain watched, the cycle has processed Space Mountain and
\* then skipped Tea Cups, reported down: one ride checked, none down, and
\* the cache holds Space Mountain only.
C30_Witness ==
    /\ config.watchedRides = WatchSpace
    /\ pc = "attractions" /\ obsCount = 2
    /\ obs.id = TeaCups.id /\ obs.status = "DOWN"
    /\ totalChecked = 1 /\ ridesDown = 0
    /\ DOMAIN statusCache = {SpaceMountain.id}
    /\ TeaCups.id \notin DOMAIN store

(***************************************************************************)
(* Properties of the summary notification, over SpecBatch.                 *)
(***************************************************************************)

\* sendPushNotification is being called with the notification in push.
Dispatching == handler = "GET /check" /\ pc \in {"push", "send"}

\* C31: for a cycle with four or more change events the only notification
\* dispatched is the summary: its title and its data carry the number of
\* events, and its body has one line per event, in event order, naming the
\* ride with its old and its new status.
C31_SummaryListsEveryChange ==
    (Dispatching /\ Len(statusChanges) > MaxIndividual) =>
        /\ dispatched = 1
        /\ push.data.type = "status_change_summary"
        /\ push.title.count = Len(statusChanges)
        /\ push.data.count = Len(statusChanges)
        /\ Len(push.body) = Len(statusChanges)
        /\ \A i \in 1 .. Len(statusChanges) :
              /\ push.body[i].rideName = statusChanges[i].rideName
              /\ push.body[i].oldStatus = statusChanges[i].oldStatus
              /\ push.body[i].newStatus = statusChanges[i].newStatus

\* The summary of four changes of Space Mountain, down and up twice, is
\* being sent to the device.
C31_Witness ==
    /\ Dispatching /\ pc = "send"
    /\ Len(statusChanges) = 4
    /\ [i \in 1 .. 4 |-> statusChanges[i].newStatus]
          = <<"DOWN", "OPERATING", "DOWN", "OPERATING">>
    /\ Len(push.body) = 4

(***************************************************************************)
(* Properties of the length of the suppressed delay, over SpecBedtime.     *)
(***************************************************************************)

\* The length of the quiet window in seconds.
WindowLengthSec ==
    IF config.bedtimeStart < config.bedtimeEnd
    THEN (config.bedtimeEnd - config.bedtimeStart) * SecondsPerHour
    ELSE (HoursPerDay - config.bedtimeStart + config.bedtimeEnd) * SecondsPerHour

\* C32: whenever getNextCheckDelay returns a suppressed decision, its
\* delaySeconds is at most the length of the quiet window plus 60, also
\* when the wall clock advances between the read of isBedtime() and the
\* read of getSecondsUntilBedtimeEnds().
C32_AsStated ==
    (Decided /\ nextCheck.isBedtime) =>
        nextCheck.delaySeconds <= WindowLengthSec + BedtimeBufferSec

\* isBedtime() read 6:59:59 and getSecondsUntilBedtimeEnds() read 7:00:00:
\* the six-hour window gives a delay longer than a day.
C32_DelayLongerThanWindow ==
    /\ Decided /\ nextCheck.isBedtime
    /\ WindowOneToSeven /\ hourCycle = "h23"
    /\ HourOf(clockBedtime) = BEDTIME_END - 1 /\ HourOf(clockUntilEnd) = BEDTIME_END
    /\ WindowLengthSec = (BEDTIME_END - BEDTIME_START) * SecondsPerHour
    /\ nextCheck.delaySeconds > SecondsPerDay

(***************************************************************************)
(* Properties of one observation among overlapping checks of the cached    *)
(* variant, over SpecOverlap.                                              *)
(***************************************************************************)

\* Invocation i processes a monitored observation in this step.
ObservedBy(i) ==
    inv[i].pc = "attractions" /\ inv'[i].totalChecked = inv[i].totalChecked + 1

\* Invocation i issues a durable write in this step.
WriteIssuedBy(i) == inv'[i].pc = "saving"

ChainClocks == {TimeOfDay(BEDTIME_START, 0, 0), TimeOfDay(BEDTIME_END, 0, 0)}

InitChain ==
    InitWith([DefaultConfig EXCEPT !.dynamicScheduling = TRUE], "h23",
             [entities |-> {SpaceMountain}, statuses |-> {"OPERATING", "DOWN"},
              maxObs |-> 1, tokens |-> {"t1"}, clocks |-> ChainClocks])

\* What the event loop runs on its own once a request has been accepted.
HandlerStep ==
    \/ InitializeStatusCache
    \/ FetchParkLiveData
    \/ ObserveNext
    \/ EndOfPark
    \/ Notify
    \/ SendPushNotification
    \/ SendToDeviceNext
    \/ PostCheckSchedules
    \/ CreateTask
    \/ PostCheckResponds
    \/ PostStartResponds
    \/ Return

NextChain ==
    \/ PostStart
    \/ PostCheck
    \/ TaskDelivered
    \/ HandlerStep

SpecChain == InitChain /\ [][NextChain]_vars

\* C34: with dynamic scheduling on, at most one self-scheduled /check task
\* waits on the queue at any time, whatever the sequence of POST /start
\* calls, POST /check calls from outside and self-scheduled POST /check calls.
C34_AsStated == pendingTasks <= 1

\* A POST /check called from outside while the task of POST /start was still
\* waiting has created a task of its own: two tasks wait.
C34_TwoPending ==
    /\ handler = "POST /check" /\ pc = "done"
    /\ ~caught /\ ~isBedtime(clockCheck)
    /\ Len(taskLog) = 1 /\ taskLog[1].created
    /\ pendingTasks = 2

(***************************************************************************)
(* SpecChainFair: SpecChain with the scheduling the platform provides.     *)
(* Node runs the continuation of a request that is under way, and Cloud    *)
(* Tasks delivers a task that waits, however many other requests the       *)
(* service gets in between; nobody has to call from outside.               *)
(***************************************************************************)
\* Every step of a request moves at least one of these.
progressVars == <<handler, pc, obsCount, devIdx, pendingTasks>>

SpecChainFair ==
    /\ SpecChain
    /\ WF_progressVars(HandlerStep)
    /\ SF_progressVars(TaskDelivered)

\* No createTask call of the request under way has been rejected.
EveryEnqueueSucceeds == \A i \in DOMAIN taskLog : taskLog[i].created

\* POST /check has answered / is being served.
PostCheckReturned == handler = "POST /check" /\ pc = "done"
PostCheckInvoked == handler = "POST /check" /\ pc # "done"

\* C35: with dynamic scheduling on, projectId and serviceUrl configured and
\* every createTask call succeeding, every POST /check that has answered
\* (after a check, after skipping for the quiet hours, or after the check
\* threw) is eventually followed by another POST /check.
C35_ChainNeverDies ==
    ([]EveryEnqueueSucceeds) => [](PostCheckReturned => <>PostCheckInvoked)

\* A POST /check whose check threw has answered 500, and the task it created
\* on the way out waits on the queue.
C35_Witness ==
    /\ PostCheckReturned /\ caught /\ response.status = 500
    /\ Len(taskLog) = 1 /\ taskLog[1].created
    /\ pendingTasks = 1

(***************************************************************************)
(* The wake-up after the quiet hours, over SpecBedtime.                    *)
(***************************************************************************)

\* The times of day at which the task of a decision can fire: scheduleTime
\* is Date.now() plus the delay (index.js:405-407), and Date.now() is read
\* after the clock reads of getNextCheckDelay.
WakeUpTimes ==
    {(t3 + nextCheck.delaySeconds) % SecondsPerDay : t3 \in ClockAfter(clockUntilEnd)}

\* isBedtime() answers true at every hour of the day.
AlwaysBedtime == \A h \in Hours : isBedtime(TimeOfDay(h, 0, 0))

\* C36: for every bedtimeStart and bedtimeEnd in 0..23 with quiet hours
\* enabled, the wake-up task scheduled during the quiet window fires at a
\* time at which isBedtime() is false, so that a real check runs after every
\* quiet window.
C36_AsStated ==
    (Decided /\ nextCheck.isBedtime) => \A t \in WakeUpTimes : ~isBedtime(t)

\* bedtimeStart = bedtimeEnd = 7 on hour cycle h23: at 03:00:00 the decision
\* is to wake at 07:01:00, and isBedtime() is true then as at every hour.
C36_WakesInsideWindow ==
    /\ Decided /\ nextCheck.isBedtime /\ hourCycle = "h23"
    /\ config.bedtimeStart = BEDTIME_END /\ config.bedtimeEnd = BEDTIME_END
    /\ clockBedtime = TimeOfDay(3, 0, 0) /\ clockUntilEnd = clockBedtime
    /\ WakeUpTimes = {TimeOfDay(BEDTIME_END, 1, 0), TimeOfDay(BEDTIME_END, 1, 1)}
    /\ \A t \in WakeUpTimes : isBedtime(t)
    /\ AlwaysBedtime

(***************************************************************************)
(* The durable store against the Status Cache at the end of a cycle, over  *)
(* Spec.                                                                   *)
(***************************************************************************)

\* checkStatusChanges has returned and GET /check has answered with its result.
CycleCompleted == handler = "GET /check" /\ pc = "done" /\ response.status = 200

\* Rides this cycle has observed: those it issued a write for, and the one it
\* observed last.
ObservedInCycle ==
    {writes[i].rideId : i \in DOMAIN writes}
    \cup (IF obsCount > 0 /\ obs.id \in DOMAIN statusCache THEN {obs.id} ELSE {})

\* C37: after every completed check cycle of the cached variant, for every
\* ride observed in that cycle, the status in the durable store equals the
\* status in the Status Cache, also when a durable write fails.
C37_AsStated ==
    CycleCompleted =>
        \A id \in ObservedInCycle :
            /\ id \in DOMAIN store
            /\ store[id].status = statusCache[id].status

\* A cycle observed Space Mountain down when cache and store held it as
\* operating; Firestore rejected the write.  The cycle has completed, the
\* cache holds DOWN and the store still holds OPERATING.
C37_CacheAheadOfStore ==
    /\ CycleCompleted
    /\ obs.id = SpaceMountain.id /\ obs.status = "DOWN"
    /\ writes = <<[rideId |-> SpaceMountain.id,
                   data |-> StatusRecord("DOWN", SpaceMountain.name)]>>
    /\ firestoreWrites = 0
    /\ statusCache[SpaceMountain.id].status = "DOWN"
    /\ SpaceMountain.id \in DOMAIN store
    /\ store[SpaceMountain.id].status = "OPERATING"

(***************************************************************************)
(* The flags of a device record, over SpecLifecycle.                       *)
(***************************************************************************)

\* The record carries invalid: true.
IsInvalid(doc) == "invalid" \in DOMAIN doc /\ doc.invalid

\* C38: in every reachable state of the durable device store every record
\* with invalid = true has active = false, for any sequence of
\* registerDevice, unregisterDevice and markTokenInvalid calls on a token,
\* re-registration of a token marked invalid included.
C38_AsStated ==
    \A token \in DOMAIN devices : IsInvalid(devices[token]) => ~devices[token].active

\* Token t1 was marked invalid after a send FCM rejected and has then been
\* registered again: its record is active and still carries invalid: true.
C38_ActiveAndInvalid ==
    /\ mutator.op = "register" /\ mutator.token = "t1" /\ mutator.pc = "invalidate"
    /\ devices["t1"].active /\ devices["t1"].invalid
    /\ devices["t1"] = RegistrationData(mutator.metadata)
                          @@ [AndroidDevice EXCEPT !.active = FALSE, !.invalid = TRUE]

(***************************************************************************)
(* The events of a cycle against its dispatches, over SpecBatch.           *)
(***************************************************************************)

\* GET /check has answered: the cycle is over, with a result or with an error.
CycleAnswered == handler = "GET /check" /\ pc = "done"

\* C39: every change event emitted in a cycle leads to a dispatch attempt in
\* that cycle, on its own or inside the summary, also when an earlier
\* dispatch of the cycle fails to read the device store or fails a
\* deactivation write: when the cycle is over, sendPushNotification has been
\* called for each notification its events call for.
C39_AsStated ==
    CycleAnswered => dispatched = Len(NotificationsFor(statusChanges))

\* A cycle emitted two events.  The dispatch of the first failed to read the
\* device store; the cycle ended with 500 and the second event was never
\* handed to sendPushNotification.
C39_SecondEventDropped ==
    /\ CycleAnswered /\ caught /\ response.status = 500
    /\ Len(statusChanges) = 2
    /\ dispatched = 1 /\ push = ChangeNotification(statusChanges[1])
    /\ deviceReads = 1 /\ pushLog = <<>>
====
